---------------------------- MODULE Spec2Model ----------------------------
(***************************************************************************)
(* State-machine model of the OpenKarotz on-device API:                    *)
(*   - api/main.py   : status / LED / ears / reboot / sleep handlers       *)
(*   - api/mcp.py    : the batched action dispatcher (POST /agent/mcp)     *)
(*   - api/core/utils.py and api/routers/*.py : command runner and the     *)
(*     endpoints that shell out to external programs                       *)
(*                                                                         *)
(* Text is a sequence of chunks (strings).  A chunk that is whitespace     *)
(* which Python's str.strip() removes is always a chunk of its own, so     *)
(* "ok\n" is <<"ok", "\n">> and f"Unknown action type: {t}" is             *)
(* <<"Unknown action type: ", t>>.                                         *)
(***************************************************************************)
EXTENDS Integers, Sequences, FiniteSets, TLC

VARIABLES
    fs,        \* the filesystem: existing path -> content (Text)
    pc,        \* "idle" | "mcp" | "responded": position of the request handling
    req,       \* the request being handled
    idx,       \* handle_mcp_request: number of actions already executed
    results,   \* handle_mcp_request: the local list `results`
    resp,      \* the HTTP response of the request (code 0 while pending)
    fsTrace,   \* history: fs at request start and after each executed action
    calls,     \* history: handler invoked for each executed action
    runs,      \* history: external commands run by the request, in order
    log,       \* the syslog entries the request has written, in order
    dev        \* the device around the data directory: mounts, statvfs, permissions

vars == <<fs, pc, req, idx, results, resp, fsTrace, calls, runs, log, dev>>

----------------------------------------------------------------------------
(* Bounds of the model                                                     *)

MaxBatch == 3      \* longest batch of actions in one /agent/mcp request
MaxOut == 2        \* longest stdout / stderr of an external command (chunks)
MaxContent == 3    \* longest content of a state file read on its own (chunks)

----------------------------------------------------------------------------
(* Text                                                                    *)

Whitespace == {" ", "\n", "\t", "\r"}

RECURSIVE LStrip(_)
LStrip(s) ==
    IF s = <<>> THEN s
    ELSE IF Head(s) \in Whitespace THEN LStrip(Tail(s)) ELSE s

RECURSIVE RStrip(_)
RStrip(s) ==
    IF s = <<>> THEN s
    ELSE IF s[Len(s)] \in Whitespace THEN RStrip(SubSeq(s, 1, Len(s) - 1)) ELSE s

\* str.strip()
Strip(s) == RStrip(LStrip(s))

\* Python's None where a value of another type may stand
None == "<None>"

\* f"{action_type}": str() of the submitted type
PyStr(v) == IF v = None THEN "None" ELSE v

----------------------------------------------------------------------------
(* JSON values as they arrive in a request body                            *)

JNull == [t |-> "null", s |-> <<>>, b |-> FALSE, n |-> 0]
JStr(s) == [t |-> "str", s |-> s, b |-> FALSE, n |-> 0]
JBool(b) == [t |-> "bool", s |-> <<>>, b |-> b, n |-> 0]
JInt(n) == [t |-> "int", s |-> <<>>, b |-> FALSE, n |-> n]
JList == [t |-> "list", s |-> <<>>, b |-> FALSE, n |-> 0]

\* a JSON object: the params mapping of an action, or a request body
Obj(fields) == [pytype |-> "dict", fields |-> fields]
\* a value that is no mapping, where a mapping is expected
NotObj(pytype) == [pytype |-> pytype, fields |-> <<>>]
EmptyObj == Obj(<<>>)

Has(o, k) == k \in DOMAIN o.fields

\* truthiness of an Optional[bool] field (None and False are falsy)
Truthy(v) == v.t = "bool" /\ v.b

----------------------------------------------------------------------------
(* Configuration: paths are <<directory, file name>>                       *)

CNF_BREEZE_COLOR == <<"00FF00">>
LED_COLOR_FILE == <<"Run", "led.color">>
LED_PULSE_FILE == <<"Run", "led.pulse">>
EARS_DISABLED_FILE == <<"Run", "ears.disabled">>
KAROTZ_SLEEP_FILE == <<"Run", "karotz.sleep">>
KAROTZ_TIME_SLEEP_FILE == <<"Run", "karotz.time.sleep">>
OK_VERSION_FILE == <<"www", "ok.version">>
OK_PATCH_FILE == <<"www", "ok_patch">>

Exists(f, path) == path \in DOMAIN f

\* os.path.join(directory, name) as it appears on a command line
PathText(path) == path[1] \o "/" \o path[2]

\* open(path, "w").write(content): create or truncate, then write
WriteFile(f, path, content) ==
    [q \in DOMAIN f \cup {path} |-> IF q = path THEN content ELSE f[q]]


\* get_file_content trimming whatever it returns, the default included
GetFileContentTrimsDefault(f, path, default) ==
    Strip(IF Exists(f, path) THEN f[path] ELSE default)

\* get_file_content(path, default) of api/main.py
GetFileContent(f, path, default) ==
    IF Exists(f, path) THEN Strip(f[path]) ELSE default

\* get_dir_count(path): the regular files directly inside the directory
GetDirCount(f, dir) == Cardinality({p \in DOMAIN f : p[1] = dir})

----------------------------------------------------------------------------
(* Pydantic models of api/main.py.  Validate* give the set of fields that  *)
(* fail validation; the model object is built only when it is empty.       *)

BoolTexts == {<<"true">>, <<"false">>, <<"1">>, <<"0">>, <<"yes">>, <<"no">>,
              <<"on">>, <<"off">>}
TrueTexts == {<<"true">>, <<"1">>, <<"yes">>, <<"on">>}
IntTexts == {<<"0">>, <<"9">>, <<"16">>, <<"700">>}

\* field of type str (required)
StrOk(v) == v.t = "str"
\* field of type Optional[str]
OptStrOk(v) == v.t \in {"str", "null"}
\* field of type Optional[bool]: lax coercion of 0/1 and the boolean words
OptBoolOk(v) ==
    \/ v.t \in {"bool", "null"}
    \/ v.t = "int" /\ v.n \in {0, 1}
    \/ v.t = "str" /\ v.s \in BoolTexts
\* field of type Optional[int]
OptIntOk(v) ==
    \/ v.t \in {"int", "null"}
    \/ v.t = "str" /\ v.s \in IntTexts

\* the value an Optional[bool] field takes after coercion
CoerceBool(v) ==
    CASE v.t = "int" -> JBool(v.n = 1)
      [] v.t = "str" -> JBool(v.s \in TrueTexts)
      [] OTHER -> v

Field(o, k, default) == IF Has(o, k) THEN o.fields[k] ELSE default

LedFieldOrder == <<"color", "color2", "pulse", "blink", "nomemory", "speed">>

LedFieldOk(o, k) ==
    CASE k = "color" -> Has(o, k) /\ StrOk(o.fields[k])
      [] k = "color2" -> ~Has(o, k) \/ OptStrOk(o.fields[k])
      [] k \in {"pulse", "blink", "nomemory"} -> ~Has(o, k) \/ OptBoolOk(o.fields[k])
      [] k = "speed" -> ~Has(o, k) \/ OptIntOk(o.fields[k])

EarsFieldOrder == <<"left", "right", "reset">>

\* EarsFieldOk with the ear positions left unvalidated
EarsFieldOkAnyPosition(o, k) ==
    CASE k \in {"left", "right"} -> TRUE
      [] k = "reset" -> ~Has(o, k) \/ OptBoolOk(o.fields[k])

EarsFieldOk(o, k) ==
    CASE k \in {"left", "right"} -> ~Has(o, k) \/ OptIntOk(o.fields[k])
      [] k = "reset" -> ~Has(o, k) \/ OptBoolOk(o.fields[k])

\* the failing fields, in declaration order (the body of str(ValidationError))
RECURSIVE BadLedFields(_, _)
BadLedFields(o, i) ==
    IF i > Len(LedFieldOrder) THEN <<>>
    ELSE (IF LedFieldOk(o, LedFieldOrder[i]) THEN <<>> ELSE <<LedFieldOrder[i]>>)
         \o BadLedFields(o, i + 1)

RECURSIVE BadEarsFields(_, _)
BadEarsFields(o, i) ==
    IF i > Len(EarsFieldOrder) THEN <<>>
    ELSE (IF EarsFieldOk(o, EarsFieldOrder[i]) THEN <<>> ELSE <<EarsFieldOrder[i]>>)
         \o BadEarsFields(o, i + 1)

\* class LedAction(BaseModel)
LedAction(o) ==
    [color |-> o.fields["color"].s,
     color2 |-> Field(o, "color2", JNull),
     pulse |-> CoerceBool(Field(o, "pulse", JBool(FALSE))),
     blink |-> CoerceBool(Field(o, "blink", JBool(FALSE))),
     nomemory |-> CoerceBool(Field(o, "nomemory", JBool(FALSE))),
     speed |-> Field(o, "speed", JInt(700))]

\* class EarsAction(BaseModel)
EarsAction(o) ==
    [left |-> Field(o, "left", JNull),
     right |-> Field(o, "right", JNull),
     reset |-> CoerceBool(Field(o, "reset", JBool(FALSE)))]

\* Model(**params): TypeError when params is no mapping, ValidationError when
\* a field fails; otherwise the typed request
Construct(model, o) ==
    LET bad == IF model = "LedAction" THEN BadLedFields(o, 1) ELSE BadEarsFields(o, 1)
    IN  IF o.pytype # "dict"
        THEN [ok |-> FALSE, exc |-> "TypeError",
              msg |-> <<"argument after ** must be a mapping, not ", o.pytype>>]
        ELSE IF bad # <<>>
        THEN [ok |-> FALSE, exc |-> "ValidationError",
              msg |-> <<"validation error for ", model, ": ">> \o bad]
        ELSE [ok |-> TRUE, exc |-> "none", msg |-> <<>>]

----------------------------------------------------------------------------
(* Handlers of api/main.py.  A handler gives                               *)
(*   [exc, code, detail, ret, fs]: the exception it raised ("none" when it *)
(*   returned), an HTTPException's status code and detail, the value it    *)
(*   returned, and the filesystem it leaves.                               *)

Returned(ret, f) == [exc |-> "none", code |-> 200, detail |-> <<>>, ret |-> ret, fs |-> f]
Raised(code, detail, f) ==
    [exc |-> "HTTPException", code |-> code, detail |-> detail, ret |-> <<>>, fs |-> f]

\* an exception other than HTTPException leaving a handler; detail is str(e)
Uncaught(exc, message, f) ==
    [exc |-> exc, code |-> 500, detail |-> message, ret |-> <<>>, fs |-> f]

\* os.statvfs(path): the block counts, or OSError(msg)
Stat(f_bavail, f_frsize, f_blocks) ==
    [ok |-> TRUE, f_bavail |-> f_bavail, f_frsize |-> f_frsize,
     f_blocks |-> f_blocks, msg |-> <<>>]
StatFails(msg) ==
    [ok |-> FALSE, f_bavail |-> 0, f_frsize |-> 0, f_blocks |-> 0, msg |-> msg]

\* the device: /mnt/usbkey is "absent", a plain directory ("dir") or
\* "mounted"; what statvfs gives for /usr and /mnt/usbkey; the files that
\* exist but that open() refuses with PermissionError
Device(usbkey, usr, usb, unreadable) ==
    [usbkey |-> usbkey, usr |-> usr, usb |-> usb, unreadable |-> unreadable]

\* a 16 MiB system partition with 4 MiB free, no USB key plugged
NominalDevice == Device("absent", Stat(1024, 4096, 4096), Stat(0, 0, 0), {})

\* n / d rounded to the nearest integer, as the "f" formats print it
Round(n, d) == (n + d \div 2) \div d

\* int(((total - free) / total) * 100) if total > 0 else 0
UsedPercent(total, free) ==
    IF total > 0 THEN ((total - free) * 100) \div total ELSE 0

\* f"{free / (1024*1024):.0f}M"
FormatMega(free) == <<ToString(Round(free, 1024 * 1024)), "M">>

\* f"{free / (1024*1024*1024):.1f}G"
FormatGiga(free) ==
    LET tenths == Round(free * 10, 1024 * 1024 * 1024)
    IN  <<ToString(tenths \div 10) \o "." \o ToString(tenths % 10), "G">>

\* the files get_status opens, in the order of the dict literal
StatusReads ==
    <<OK_VERSION_FILE, OK_PATCH_FILE, KAROTZ_TIME_SLEEP_FILE, LED_COLOR_FILE,
      LED_PULSE_FILE>>

\* the positions in `reads` of the files that cannot be opened
Refused(f, reads) ==
    {i \in 1..Len(reads) : Exists(f, reads[i]) /\ reads[i] \in dev.unreadable}

Min(S) == CHOOSE x \in S : \A y \in S : x <= y

\* str(PermissionError) of open(path)
PermissionDenied(path) == <<"[Errno 13] Permission denied: '", PathText(path), "'">>

\* get_mac_address(interface) of api/main.py and of api/core/utils.py
GetMacAddress(f, interface) ==
    GetFileContent(f, <<"/sys/class/net/" \o interface, "address">>,
                   <<"00:00:00:00:00:00">>)

\* get_status() of api/main.py
GetStatus(f) ==
    LET kfs_stat == dev.usr
        kfs_free == kfs_stat.f_bavail * kfs_stat.f_frsize
        kfs_total == kfs_stat.f_blocks * kfs_stat.f_frsize
        ismount == dev.usbkey = "mounted"
        ufs_stat == dev.usb
        ufs_free_bytes == ufs_stat.f_bavail * ufs_stat.f_frsize
        ufs_total == ufs_stat.f_blocks * ufs_stat.f_frsize
    IN  IF ~kfs_stat.ok THEN Uncaught("OSError", kfs_stat.msg, f)
        ELSE IF ismount /\ ~ufs_stat.ok THEN Uncaught("OSError", ufs_stat.msg, f)
        ELSE IF Refused(f, StatusReads) # {}
        THEN Uncaught("PermissionError",
                      PermissionDenied(StatusReads[Min(Refused(f, StatusReads))]), f)
        ELSE Returned(
            [version |-> GetFileContent(f, OK_VERSION_FILE, <<"0">>),
             patch |-> GetFileContent(f, OK_PATCH_FILE, <<"0">>),
             ears_disabled |-> IF Exists(f, EARS_DISABLED_FILE) THEN <<"1">> ELSE <<"0">>,
             sleep |-> IF Exists(f, KAROTZ_SLEEP_FILE) THEN <<"1">> ELSE <<"0">>,
             sleep_time |-> GetFileContent(f, KAROTZ_TIME_SLEEP_FILE, <<"0">>),
             led_color |-> GetFileContent(f, LED_COLOR_FILE, CNF_BREEZE_COLOR),
             led_pulse |-> GetFileContent(f, LED_PULSE_FILE, <<"0">>),
             tts_cache_size |-> GetDirCount(f, "Tmp"),
             usb_free_space |-> IF ismount THEN FormatGiga(ufs_free_bytes) ELSE <<"-1">>,
             karotz_free_space |-> FormatMega(kfs_free),
             eth_mac |-> GetMacAddress(f, "eth0"),
             wlan_mac |-> GetMacAddress(f, "wlan0"),
             nb_tags |-> GetDirCount(f, "Rfid"),
             nb_moods |-> GetDirCount(f, "Moods/fr"),
             nb_sounds |-> GetDirCount(f, "Sounds"),
             nb_stories |-> GetDirCount(f, "Stories"),
             karotz_percent_used_space |-> <<ToString(UsedPercent(kfs_total, kfs_free))>>,
             usb_percent_used_space |->
                 IF ismount THEN <<ToString(UsedPercent(ufs_total, ufs_free_bytes))>>
                 ELSE <<"-1">>,
             data_dir |-> <<"/usr/karotz/data">>],
            f)

LedConflictDetail == <<"Cannot use 'blink' and 'pulse' at the same time.">>

\* set_led persisting the colour before it looks at pulse and blink
SetLedWriteFirst(action, f) ==
    LET g == IF ~Truthy(action.nomemory)
             THEN WriteFile(f, LED_COLOR_FILE, action.color)
             ELSE f
    IN  IF Truthy(action.pulse) /\ Truthy(action.blink)
        THEN Raised(400, LedConflictDetail, g)
        ELSE Returned([return_code |-> <<"0">>, message |-> <<"LED command received.">>], g)

\* set_led persisting the colour whatever nomemory says
SetLedIgnoresNoMemory(action, f) ==
    IF Truthy(action.pulse) /\ Truthy(action.blink)
    THEN Raised(400, LedConflictDetail, f)
    ELSE Returned([return_code |-> <<"0">>, message |-> <<"LED command received.">>],
                  WriteFile(f, LED_COLOR_FILE, action.color))

\* set_led(action)
SetLed(action, f) ==
    IF Truthy(action.pulse) /\ Truthy(action.blink)
    THEN Raised(400, LedConflictDetail, f)
    ELSE Returned([return_code |-> <<"0">>, message |-> <<"LED command received.">>],
                  IF ~Truthy(action.nomemory)
                  THEN WriteFile(f, LED_COLOR_FILE, action.color)
                  ELSE f)

\* set_ears(action)
SetEars(action, f) ==
    Returned([return_code |-> <<"0">>, message |-> <<"Ears command received.">>], f)

\* reboot_device()
RebootDevice(f) ==
    Returned([return_code |-> <<"0">>, message |-> <<"Reboot command sent successfully.">>], f)

\* sleep_device()
SleepDevice(f) ==
    Returned([return_code |-> <<"0">>, message |-> <<"Sleep command sent successfully.">>], f)

----------------------------------------------------------------------------
(* api/mcp.py: the action dispatcher                                       *)

\* one entry of MCPRequest.actions; action_data.get("type") is None when the
\* key is missing, action_data.get("params", {}) is {} when it is missing
Action(type, params) == [type |-> type, hasParams |-> TRUE, params |-> params]
ActionNoParams(type) == [type |-> type, hasParams |-> FALSE, params |-> EmptyObj]

SuccessResult(action_type, data) ==
    [action |-> action_type, status |-> "success", data |-> data]
\* the error envelope carrying its message under "data"
ErrorResultAsData(action_type, details) ==
    [action |-> action_type, status |-> "error", data |-> details]
ErrorResult(action_type, details) ==
    [action |-> action_type, status |-> "error", details |-> details]

\* the `return {... "success" ...}` after a handler call and the two except
\* clauses around it
Envelope(action_type, out, handler) ==
    [result |-> IF out.exc = "none"
                THEN SuccessResult(action_type, out.ret)
                ELSE ErrorResult(action_type, out.detail),
     fs |-> out.fs,
     called |-> handler]

\* except Exception: the model could not be built, no handler was called
Rejected(action_type, msg, f) ==
    [result |-> ErrorResult(action_type, msg), fs |-> f, called |-> "none"]

\* execute_karotz_action whose last branch is taken for every other type
ExecuteKarotzActionFallThrough(action_data, f) ==
    LET action_type == action_data.type
        params == IF action_data.hasParams THEN action_data.params ELSE EmptyObj
    IN  CASE action_type = "status.get" ->
               Envelope(action_type, GetStatus(f), "get_status")
          [] action_type = "leds.set" ->
               LET c == Construct("LedAction", params)
               IN  IF c.ok
                   THEN Envelope(action_type, SetLed(LedAction(params), f), "set_led")
                   ELSE Rejected(action_type, c.msg, f)
          [] action_type = "ears.set" ->
               LET c == Construct("EarsAction", params)
               IN  IF c.ok
                   THEN Envelope(action_type, SetEars(EarsAction(params), f), "set_ears")
                   ELSE Rejected(action_type, c.msg, f)
          [] action_type = "device.reboot" ->
               Envelope(action_type, RebootDevice(f), "reboot_device")
          [] OTHER ->
               Envelope(action_type, SleepDevice(f), "sleep_device")

\* execute_karotz_action(action_data)
ExecuteKarotzAction(action_data, f) ==
    LET action_type == action_data.type
        params == IF action_data.hasParams THEN action_data.params ELSE EmptyObj
    IN  CASE action_type = "status.get" ->
               Envelope(action_type, GetStatus(f), "get_status")
          [] action_type = "leds.set" ->
               LET c == Construct("LedAction", params)
               IN  IF c.ok
                   THEN Envelope(action_type, SetLed(LedAction(params), f), "set_led")
                   ELSE Rejected(action_type, c.msg, f)
          [] action_type = "ears.set" ->
               LET c == Construct("EarsAction", params)
               IN  IF c.ok
                   THEN Envelope(action_type, SetEars(EarsAction(params), f), "set_ears")
                   ELSE Rejected(action_type, c.msg, f)
          [] action_type = "device.reboot" ->
               Envelope(action_type, RebootDevice(f), "reboot_device")
          [] action_type = "device.sleep" ->
               Envelope(action_type, SleepDevice(f), "sleep_device")
          [] OTHER ->
               Rejected(action_type,
                        <<"Unknown action type: ", PyStr(action_type)>>, f)

\* the action types execute_karotz_action compares action_type with
RoutingTable == {"status.get", "leds.set", "ears.set", "device.reboot", "device.sleep"}

----------------------------------------------------------------------------
(* Requests of the model                                                   *)

RED == <<"FF0000">>
PADDED_BLUE == <<" ", "0000FF", "\n">>
WHITE == <<"FFFFFF">>

LedBodies ==
    { Obj("color" :> JStr(RED)),
      Obj("color" :> JStr(PADDED_BLUE) @@ "nomemory" :> JBool(FALSE)),
      Obj("color" :> JStr(WHITE) @@ "nomemory" :> JBool(TRUE)),
      Obj("color" :> JStr(WHITE) @@ "pulse" :> JBool(TRUE) @@ "blink" :> JBool(TRUE)),
      Obj("color" :> JStr(WHITE) @@ "pulse" :> JStr(<<"yes">>) @@ "blink" :> JInt(1)
          @@ "nomemory" :> JBool(TRUE)) }

Actions ==
    { ActionNoParams("status.get"),
      ActionNoParams("leds.set"),
      Action("leds.set", NotObj("list")),
      Action("ears.set", Obj("left" :> JInt(9))),
      Action("ears.set", Obj("left" :> JStr(<<"up">>))),
      Action("device.sleep", NotObj("NoneType")),
      ActionNoParams("bogus"),
      ActionNoParams(None) }
    \cup { Action("leds.set", b) : b \in LedBodies }

Batches == UNION { [1..n -> Actions] : n \in 0..MaxBatch }

NoRequest == [kind |-> "none", actions |-> <<>>, body |-> EmptyObj]
McpRequest(actions) == [kind |-> "mcp", actions |-> actions, body |-> EmptyObj]
HttpRequest(kind, body) == [kind |-> kind, actions |-> <<>>, body |-> body]

Pending == [code |-> 0, body |-> <<>>]
Response(code, body) == [code |-> code, body |-> body]

\* what the framework answers when an exception leaves a handler
InternalServerError == Response(500, [text |-> <<"Internal Server Error">>])

\* the filesystems a request may find: the LED colour file absent or present
InitialFilesystems ==
    { <<>>, LED_COLOR_FILE :> RED }

----------------------------------------------------------------------------
(* The dispatcher specification: requests are handled one at a time        *)

Init ==
    /\ fs \in InitialFilesystems
    /\ pc = "idle"
    /\ req = NoRequest
    /\ idx = 0
    /\ results = <<>>
    /\ resp = Pending
    /\ fsTrace = <<fs>>
    /\ calls = <<>>
    /\ runs = <<>>
    /\ log = <<>>
    /\ dev = NominalDevice

\* POST /agent/mcp arrives: handle_mcp_request starts with results = []
McpReceive ==
    /\ pc = "idle"
    /\ \E actions \in Batches : req' = McpRequest(actions)
    /\ pc' = "mcp"
    /\ idx' = 0
    /\ results' = <<>>
    /\ resp' = Pending
    /\ fsTrace' = <<fs>>
    /\ calls' = <<>>
    /\ UNCHANGED <<fs, runs, log, dev>>

\* the loop inserting each result at the front of the list
McpExecutePrepend ==
    /\ pc = "mcp"
    /\ idx < Len(req.actions)
    /\ LET out == ExecuteKarotzAction(req.actions[idx + 1], fs)
       IN  /\ results' = <<out.result>> \o results
           /\ fs' = out.fs
           /\ fsTrace' = Append(fsTrace, out.fs)
           /\ calls' = Append(calls, out.called)
    /\ idx' = idx + 1
    /\ UNCHANGED <<pc, req, resp, runs, log, dev>>

\* the loop leaving at the first error result
McpExecuteBreakOnError ==
    /\ pc = "mcp"
    /\ idx < Len(req.actions)
    /\ LET out == ExecuteKarotzAction(req.actions[idx + 1], fs)
       IN  /\ results' = Append(results, out.result)
           /\ fs' = out.fs
           /\ fsTrace' = Append(fsTrace, out.fs)
           /\ calls' = Append(calls, out.called)
           /\ idx' = IF out.result.status = "error" THEN Len(req.actions) ELSE idx + 1
    /\ UNCHANGED <<pc, req, resp, runs, log, dev>>

\* the loop running every action on the filesystem found at the start of the
\* request, as concurrently started actions would
McpExecuteOnSnapshot ==
    /\ pc = "mcp"
    /\ idx < Len(req.actions)
    /\ LET out == ExecuteKarotzAction(req.actions[idx + 1], fsTrace[1])
       IN  /\ results' = Append(results, out.result)
           /\ fs' = out.fs
           /\ fsTrace' = Append(fsTrace, out.fs)
           /\ calls' = Append(calls, out.called)
    /\ idx' = idx + 1
    /\ UNCHANGED <<pc, req, resp, runs, log, dev>>

\* one iteration of `for action_data in request.actions`
McpExecute ==
    /\ pc = "mcp"
    /\ idx < Len(req.actions)
    /\ LET out == ExecuteKarotzAction(req.actions[idx + 1], fs)
       IN  /\ results' = Append(results, out.result)
           /\ fs' = out.fs
           /\ fsTrace' = Append(fsTrace, out.fs)
           /\ calls' = Append(calls, out.called)
    /\ idx' = idx + 1
    /\ UNCHANGED <<pc, req, resp, runs, log, dev>>

\* return MCPResponse(results=results)
McpReturn ==
    /\ pc = "mcp"
    /\ idx = Len(req.actions)
    /\ resp' = Response(200, results)
    /\ pc' = "responded"
    /\ UNCHANGED <<fs, req, idx, results, fsTrace, calls, runs, log, dev>>

\* the response FastAPI gives for a handler's outcome
HttpResponse(out) ==
    IF out.exc = "none" THEN Response(200, out.ret)
    ELSE IF out.exc = "HTTPException" THEN Response(out.code, [detail |-> out.detail])
    ELSE InternalServerError

\* POST /api/leds: the body is validated into a LedAction (422 when it is
\* not one), then set_led runs
HttpSetLed ==
    /\ pc = "idle"
    /\ \E body \in LedBodies \cup {EmptyObj} :
         LET c == Construct("LedAction", body)
             out == SetLed(LedAction(body), fs)
         IN  /\ req' = HttpRequest("leds", body)
             /\ IF c.ok
                THEN /\ resp' = HttpResponse(out)
                     /\ fs' = out.fs
                     /\ fsTrace' = <<fs, out.fs>>
                     /\ calls' = <<"set_led">>
                ELSE /\ resp' = Response(422, [detail |-> c.msg])
                     /\ fs' = fs
                     /\ fsTrace' = <<fs, fs>>
                     /\ calls' = <<"none">>
    /\ pc' = "responded"
    /\ idx' = 0
    /\ results' = <<>>
    /\ UNCHANGED <<runs, log, dev>>

\* GET /api/status
HttpGetStatus ==
    /\ pc = "idle"
    /\ req' = HttpRequest("status", EmptyObj)
    /\ resp' = HttpResponse(GetStatus(fs))
    /\ fsTrace' = <<fs, fs>>
    /\ calls' = <<"get_status">>
    /\ pc' = "responded"
    /\ idx' = 0
    /\ results' = <<>>
    /\ UNCHANGED <<fs, runs, log, dev>>

\* the response is sent and the handler's locals are gone: only the
\* filesystem outlives a request
Finish ==
    /\ pc = "responded"
    /\ pc' = "idle"
    /\ req' = NoRequest
    /\ idx' = 0
    /\ results' = <<>>
    /\ resp' = Pending
    /\ fsTrace' = <<fs>>
    /\ calls' = <<>>
    /\ runs' = <<>>
    /\ log' = <<>>
    /\ UNCHANGED <<fs, dev>>

Next ==
    \/ McpReceive
    \/ McpExecute
    \/ McpReturn
    \/ HttpSetLed
    \/ HttpGetStatus
    \/ Finish

Spec == Init /\ [][Next]_vars

----------------------------------------------------------------------------
(* Properties of the dispatcher                                            *)

Batch == req.kind = "mcp"
Executed == 1..Len(results)
Params(a) == IF a.hasParams THEN a.params ELSE EmptyObj
Max(S) == CHOOSE x \in S : \A y \in S : y <= x

\* what the handler recorded for the i-th action gives on the filesystem
\* that action found
HandlerOutcome(i) ==
    LET a == req.actions[i]
        f == fsTrace[i]
    IN  CASE calls[i] = "get_status" -> GetStatus(f)
          [] calls[i] = "set_led" -> SetLed(LedAction(Params(a)), f)
          [] calls[i] = "set_ears" -> SetEars(EarsAction(Params(a)), f)
          [] calls[i] = "reboot_device" -> RebootDevice(f)
          [] calls[i] = "sleep_device" -> SleepDevice(f)

\* C1: a batched request with actions a_1..a_n is answered with exactly n
\* results, the i-th being the result of a_i and carrying a_i's type: the
\* results come in submission order, none dropped or duplicated.
C1_ResultsInSubmissionOrder ==
    Batch =>
        /\ Len(results) = idx
        /\ \A i \in Executed :
             /\ results[i].action = req.actions[i].type
             /\ results[i] = ExecuteKarotzAction(req.actions[i], fsTrace[i]).result
        /\ pc = "responded" =>
             /\ resp.code = 200
             /\ resp.body = results
             /\ Len(resp.body) = Len(req.actions)

\* a mix of unknown, known and invalid actions has been answered
C1_Witness ==
    /\ Batch /\ pc = "responded" /\ Len(req.actions) = 3
    /\ req.actions[1].type = "bogus"
    /\ req.actions[2].type = "status.get"
    /\ req.actions[3] = ActionNoParams("leds.set")
    /\ results[1].status = "error" /\ results[2].status = "success"
    /\ results[3].status = "error"

\* C2: an action ending in an error result (unknown type, validation failure,
\* exception raised by the handler) never keeps a later action of the batch
\* from being executed and getting its own result; the batch
\* [status.get, bogus, device.sleep] gives success, error "Unknown action
\* type: bogus", success.
C2_ErrorDoesNotBlockSiblings ==
    (Batch /\ pc = "responded") =>
        /\ Len(results) = Len(req.actions)
        /\ \A j \in Executed :
             (\E i \in 1..(j - 1) : results[i].status = "error") =>
                 LET alone == ExecuteKarotzAction(req.actions[j], fsTrace[j])
                 IN  /\ results[j] = alone.result
                     /\ fsTrace[j + 1] = alone.fs
                     /\ calls[j] = alone.called
        /\ (/\ Len(req.actions) = 3
            /\ req.actions[1] = ActionNoParams("status.get")
            /\ req.actions[2] = ActionNoParams("bogus")
            /\ req.actions[3].type = "device.sleep") =>
             /\ Len(results) = 3
             /\ results[1].status = "success"
             /\ results[2] = ErrorResult("bogus", <<"Unknown action type: ", "bogus">>)
             /\ results[3].status = "success"
             /\ calls = <<"get_status", "none", "sleep_device">>

\* an HTTPException raised inside set_led, then a persisting leds.set
C2_Witness ==
    /\ Batch /\ pc = "responded" /\ Len(req.actions) = 3
    /\ calls = <<"none", "set_led", "set_led">>
    /\ results[1].status = "error" /\ results[2].status = "error"
    /\ results[3].status = "success"
    /\ fsTrace[4] # fsTrace[3]

TrueInputs == {JBool(TRUE), JInt(1)} \cup {JStr(s) : s \in TrueTexts}

AsksPulseAndBlink(o) ==
    /\ o.pytype = "dict"
    /\ Has(o, "pulse") /\ Has(o, "blink")
    /\ o.fields["pulse"] \in TrueInputs
    /\ o.fields["blink"] \in TrueInputs

\* C3: an LED request with pulse and blink both true is rejected for every
\* caller: POST /leds answers 400, the dispatcher gives an error envelope and
\* goes on, and in both cases the filesystem (the LED colour file) is left as
\* it was, whatever nomemory is.
C3_PulseAndBlinkRejected ==
    /\ (pc = "responded" /\ req.kind = "leds" /\ AsksPulseAndBlink(req.body)) =>
           /\ resp.code = 400
           /\ resp.body = [detail |-> LedConflictDetail]
           /\ fs = fsTrace[1]
    /\ Batch =>
           /\ \A i \in Executed :
                (req.actions[i].type = "leds.set"
                    /\ AsksPulseAndBlink(Params(req.actions[i]))) =>
                   /\ results[i].status = "error"
                   /\ DOMAIN results[i] = {"action", "status", "details"}
                   /\ results[i].details = LedConflictDetail
                   /\ fsTrace[i + 1] = fsTrace[i]
           /\ pc = "responded" => resp.code = 200

\* both callers have rejected the request over an existing colour file, with
\* nomemory unset and with nomemory true
C3_Witness ==
    \/ /\ pc = "responded" /\ req.kind = "leds" /\ AsksPulseAndBlink(req.body)
       /\ ~Has(req.body, "nomemory")
       /\ Exists(fs, LED_COLOR_FILE) /\ resp.code = 400
    \/ /\ Batch /\ pc = "responded" /\ Len(req.actions) = 2
       /\ AsksPulseAndBlink(Params(req.actions[1])) /\ ~Has(Params(req.actions[1]), "nomemory")
       /\ AsksPulseAndBlink(Params(req.actions[2])) /\ Has(Params(req.actions[2]), "nomemory")
       /\ Exists(fs, LED_COLOR_FILE)
       /\ results[1].status = "error" /\ results[2].status = "error"

\* C4: an action whose type is not in the routing table (a missing type
\* included) gets an error result with details "Unknown action type: <type>"
\* and has no effect: no handler is invoked, no file is written.
C4_UnknownTypeRejected ==
    Batch =>
        \A i \in Executed :
            LET t == req.actions[i].type
            IN  t \notin RoutingTable =>
                    /\ results[i] = [action |-> t, status |-> "error",
                                     details |-> <<"Unknown action type: ",
                                                   IF t = None THEN "None" ELSE t>>]
                    /\ calls[i] = "none"
                    /\ fsTrace[i + 1] = fsTrace[i]

\* a bogus action and an action without type were answered between two
\* persisting leds.set
C4_Witness ==
    /\ Batch /\ pc = "responded" /\ Len(req.actions) = 3
    /\ req.actions[1].type = "leds.set" /\ calls[1] = "set_led"
    /\ req.actions[2].type = "bogus"
    /\ req.actions[3].type = None
    /\ Exists(fs, LED_COLOR_FILE)
    /\ results[2].details = <<"Unknown action type: ", "bogus">>
    /\ results[3].details = <<"Unknown action type: ", "None">>

\* params that are no LedAction / EarsAction: not a mapping, the required
\* colour missing, a field of the wrong type
Unconvertible(a) ==
    LET p == Params(a)
    IN  /\ a.type \in {"leds.set", "ears.set"}
        /\ \/ p.pytype # "dict"
           \/ a.type = "leds.set" /\ ~Has(p, "color")
           \/ a.type = "ears.set" /\ Has(p, "left") /\ p.fields["left"] = JStr(<<"up">>)

\* C5: when the params cannot be converted into the handler's typed request,
\* the dispatcher gives an error result carrying the validation message, does
\* not raise, and never invokes the handler: no state file is modified.
C5_ConversionFailureRejected ==
    Batch =>
        /\ \A i \in Executed :
             Unconvertible(req.actions[i]) =>
                 /\ results[i].status = "error"
                 /\ DOMAIN results[i] = {"action", "status", "details"}
                 /\ results[i].details # <<>>
                 /\ results[i].details[1] \in {"validation error for ",
                                               "argument after ** must be a mapping, not "}
                 /\ calls[i] = "none"
                 /\ fsTrace[i + 1] = fsTrace[i]
        /\ pc = "responded" => resp.code = 200 /\ Len(resp.body) = Len(req.actions)

\* a missing colour, a wrongly typed field and params that are a list
C5_Witness ==
    /\ Batch /\ pc = "responded" /\ Len(req.actions) = 3
    /\ req.actions[1] = ActionNoParams("leds.set")
    /\ req.actions[2] = Action("ears.set", Obj("left" :> JStr(<<"up">>)))
    /\ req.actions[3] = Action("leds.set", NotObj("list"))
    /\ \A i \in 1..3 : results[i].status = "error"

\* the variants of the ActionRequest union and the handler of each
HandlerOfKind ==
    [GetStatus |-> "get_status", SetLed |-> "set_led", SetEars |-> "set_ears",
     Reboot |-> "reboot_device", Sleep |-> "sleep_device", WakeUp |-> "wakeup_device"]

\* the types an action may carry: those of the model's requests and the
\* names after the pattern of device.sleep
SubmittableTypes ==
    {a.type : a \in Actions} \cup {"device.reboot", "device.wakeup", "device.wake"}

\* the dispatcher routes type t to handler h and answers success
Routes(t, h) ==
    LET out == ExecuteKarotzAction(Action(t, Obj("color" :> JStr(RED))), fs)
    IN  out.called = h /\ out.result.status = "success"

\* C6: the routing covers every variant of the ActionRequest union: each of
\* the six kinds has an action type routed to its handler and answered with
\* success; a wake-up action is not answered with "Unknown action type".
C6_EveryVariantRouted ==
    /\ \A k \in DOMAIN HandlerOfKind :
         \E t \in SubmittableTypes : Routes(t, HandlerOfKind[k])
    /\ LET out == ExecuteKarotzAction(ActionNoParams("device.wakeup"), fs).result
       IN  out.status = "success"

\* C7: every result of the dispatcher is a uniform envelope: the submitted
\* type, a status that is "success" or "error", 'data' holding the handler's
\* return value exactly when the status is "success", 'details' exactly when
\* it is "error".
C7_UniformEnvelope ==
    Batch =>
        \A i \in Executed :
            LET r == results[i]
            IN  /\ r.action = req.actions[i].type
                /\ r.status \in {"success", "error"}
                /\ r.status = "success" =>
                       /\ DOMAIN r = {"action", "status", "data"}
                       /\ calls[i] # "none"
                       /\ r.data = HandlerOutcome(i).ret
                /\ r.status = "error" =>
                       /\ DOMAIN r = {"action", "status", "details"}
                       /\ r.details # <<>>

\* a status, an action response and the three kinds of error were wrapped
C7_Witness ==
    /\ Batch /\ Len(results) = 3
    /\ \/ /\ calls = <<"get_status", "set_led", "set_led">>
          /\ results[2].status = "success" /\ results[3].status = "error"
       \/ /\ calls = <<"set_ears", "none", "none">>
          /\ req.actions[2].type = "bogus" /\ req.actions[3].type = "ears.set"

\* a leds.set that is carried out and persists its colour
Persisting(a) ==
    /\ a.type = "leds.set"
    /\ Construct("LedAction", Params(a)).ok
    /\ LET led == LedAction(Params(a))
       IN  ~(Truthy(led.pulse) /\ Truthy(led.blink)) /\ ~Truthy(led.nomemory)

Colour(a) == Params(a).fields["color"].s

\* the persisting leds.set actions executed before position j
PersistedBefore(j) == {i \in Executed : i < j /\ Persisting(req.actions[i])}

\* the actions of a batch run one after the other, each on the filesystem the
\* previous one left
Sequential ==
    /\ Len(fsTrace) = Len(results) + 1
    /\ fs = fsTrace[Len(fsTrace)]
    /\ \A i \in Executed :
         LET out == ExecuteKarotzAction(req.actions[i], fsTrace[i])
         IN  results[i] = out.result /\ fsTrace[i + 1] = out.fs

\* C8 as stated: sequential execution; after the batch the persisted colour is
\* that of the last persisting leds.set, and a status.get after a leds.set
\* reports that action's colour.
C8_StatusObservesColourAsSent ==
    Batch =>
        /\ Sequential
        /\ PersistedBefore(idx + 1) # {} =>
             fs[LED_COLOR_FILE] = Colour(req.actions[Max(PersistedBefore(idx + 1))])
        /\ \A j \in Executed :
             (req.actions[j].type = "status.get" /\ PersistedBefore(j) # {}) =>
                 results[j].data.led_color = Colour(req.actions[Max(PersistedBefore(j))])

\* C8 (amended): sequential execution; after the batch the persisted colour is
\* exactly that of the last persisting leds.set, and a status.get after a
\* leds.set reports that colour with leading and trailing whitespace removed.
C8_StatusObservesTrimmedColour ==
    Batch =>
        /\ Sequential
        /\ PersistedBefore(idx + 1) # {} =>
             fs[LED_COLOR_FILE] = Colour(req.actions[Max(PersistedBefore(idx + 1))])
        /\ \A j \in Executed :
             (req.actions[j].type = "status.get" /\ PersistedBefore(j) # {}) =>
                 results[j].data.led_color =
                     Strip(Colour(req.actions[Max(PersistedBefore(j))]))

\* two persisting leds.set, the later one padded, then a status.get
C8_Witness ==
    /\ Batch /\ pc = "responded" /\ Len(req.actions) = 3
    /\ Persisting(req.actions[1]) /\ Colour(req.actions[1]) = RED
    /\ Persisting(req.actions[2]) /\ Colour(req.actions[2]) = PADDED_BLUE
    /\ req.actions[3].type = "status.get"
    /\ fs[LED_COLOR_FILE] = PADDED_BLUE
    /\ results[3].data.led_color = <<"0000FF">>

----------------------------------------------------------------------------
(* api/core/utils.py: the command runner                                   *)

\* what subprocess.run meets: the program ran and exited, the program was not
\* found, or the launch failed otherwise (e.g. permission denied)
Exited(code, stdout, stderr) ==
    [kind |-> "exit", code |-> code, stdout |-> stdout, stderr |-> stderr, msg |-> <<>>]
NotFound == [kind |-> "notfound", code |-> 0, stdout |-> <<>>, stderr |-> <<>>, msg |-> <<>>]
LaunchFailed(msg) ==
    [kind |-> "oserror", code |-> 0, stdout |-> <<>>, stderr |-> <<>>, msg |-> msg]

\* log_error(message, subsystem) / log_info(message, subsystem)
LogError(message, subsystem) ==
    [level |-> "LOG_ERR", text |-> <<"[ERROR] [", subsystem, "] ">> \o message]
LogInfo(message, subsystem) ==
    [level |-> "LOG_INFO", text |-> <<"[", subsystem, "] ">> \o message]

CommandResult(success, output, entries) ==
    [exc |-> "none", success |-> success, output |-> output, log |-> entries]

\* run_command returning standard output whatever the exit code
RunCommandAlwaysStdout(command, outcome) ==
    CASE outcome.kind = "exit" ->
             CommandResult(outcome.code = 0, Strip(outcome.stdout), <<>>)
      [] outcome.kind = "notfound" ->
             CommandResult(FALSE, <<"Command not found: ", command[1]>>,
                 <<LogError(<<"Command not found: ", command[1]>>, "Shell")>>)
      [] outcome.kind = "oserror" ->
             CommandResult(FALSE, outcome.msg,
                 <<LogError(<<"An unexpected error occurred while running command: ">>
                            \o command, "Shell")>>)

\* run_command(command) when subprocess.run meets `outcome`
RunCommand(command, outcome) ==
    CASE outcome.kind = "exit" /\ outcome.code = 0 ->
             CommandResult(TRUE, Strip(outcome.stdout), <<>>)
      [] outcome.kind = "notfound" ->
             CommandResult(FALSE, <<"Command not found: ", command[1]>>,
                 <<LogError(<<"Command not found: ", command[1]>>, "Shell")>>)
      [] outcome.kind = "exit" /\ outcome.code # 0 ->
             CommandResult(FALSE, Strip(outcome.stderr),
                 <<LogError(<<"Command '">> \o command \o <<"' failed with exit code ",
                              ToString(outcome.code), ": ">> \o Strip(outcome.stderr),
                            "Shell")>>)
      [] outcome.kind = "oserror" ->
             CommandResult(FALSE, outcome.msg,
                 <<LogError(<<"An unexpected error occurred while running command: ">>
                            \o command, "Shell")>>)

\* one entry of the history `runs`
Run(command, outcome, result) ==
    [command |-> command, outcome |-> outcome,
     success |-> result.success, output |-> result.output, exc |-> result.exc]

\* `"no process found" not in output`
Contains(text, chunk) == \E i \in 1..Len(text) : text[i] = chunk

\* kill_process(process_name): the result of run_command and the log line
\* written unless the process was simply not running
KillProcess(process_name, outcome) ==
    LET r == RunCommand(<<"killall", process_name>>, outcome)
    IN  [r EXCEPT !.log =
            r.log \o (IF ~r.success /\ ~Contains(r.output, "no process found")
                      THEN <<LogError(<<"Failed to kill process '", process_name, "': ">>
                                      \o r.output, "Process")>>
                      ELSE <<>>)]

----------------------------------------------------------------------------
(* Outcomes of external programs, as the environment may give them         *)

OutChunks == {"ok", "bad", "\n"}
ExitCodes == {0, 1, 2}

\* every text of at most MaxOut chunks
OutTexts == UNION { [1..n -> OutChunks] : n \in 0..MaxOut }

AllOutcomes ==
    { Exited(c, o, e) : c \in ExitCodes, o \in OutTexts, e \in OutTexts }
    \cup { NotFound, LaunchFailed(<<"[Errno 13] Permission denied">>) }

\* the outcomes an endpoint's command is run against
EndpointOutcomes ==
    { Exited(0, <<"ok", "\n">>, <<>>),
      Exited(1, <<"ok">>, <<"bad", "\n">>),
      NotFound,
      LaunchFailed(<<"[Errno 13] Permission denied">>) }

\* killall when no such process runs
NoProcessFound == Exited(1, <<>>, <<"mplayer: ", "no process found", "\n">>)

----------------------------------------------------------------------------
(* The routers' endpoints that run external programs                       *)

Ok(message) == Response(200, [message |-> message])
Error(code, detail) == Response(code, [detail |-> detail])

\* os.remove(path)
RemoveFile(f, path) == [q \in DOMAIN f \ {path} |-> f[q]]

\* the request is answered: what it leaves behind
Answer(kind, body, response, rs, entries, f) ==
    /\ req' = HttpRequest(kind, body)
    /\ resp' = response
    /\ runs' = rs
    /\ log' = entries
    /\ fs' = f
    /\ fsTrace' = <<fs, f>>
    /\ pc' = "responded"
    /\ UNCHANGED <<idx, results, calls, dev>>

\* the shape shared by the handlers that log, run one command and raise
\* HTTPException(500, f"{failPrefix}{output}") when it did not succeed
CommandEndpoint(kind, body, info, command, failPrefix, okMessage) ==
    /\ pc = "idle"
    /\ \E o \in EndpointOutcomes :
         LET r == RunCommand(command, o)
         IN  Answer(kind, body,
                    IF r.success THEN Ok(okMessage)
                    ELSE Error(500, <<failPrefix>> \o r.output),
                    <<Run(command, o, r)>>, <<info>> \o r.log, fs)

\* POST /system/reboot
SystemReboot ==
    CommandEndpoint("system.reboot", EmptyObj,
        LogInfo(<<"Received reboot request.">>, "System"),
        <<"/sbin/reboot">>, "Reboot command failed: ",
        <<"Karotz device is rebooting.">>)

\* POST /system/sleep
SystemSleep ==
    CommandEndpoint("system.sleep", EmptyObj,
        LogInfo(<<"Received sleep request.">>, "System"),
        <<"/usr/karotz/bin/sleep.sh">>, "Sleep command failed: ",
        <<"Karotz device is going to sleep.">>)

\* POST /system/wakeup
SystemWakeup ==
    CommandEndpoint("system.wakeup", EmptyObj,
        LogInfo(<<"Received wakeup request.">>, "System"),
        <<"/usr/karotz/bin/wakeup.sh">>, "Wakeup command failed: ",
        <<"Karotz device is waking up.">>)

\* POST /system/correct-permissions
SystemCorrectPermissions ==
    CommandEndpoint("system.correct-permissions", EmptyObj,
        LogInfo(<<"Correcting permissions on data directory.">>, "System"),
        <<"/bin/chmod", "-R", "755", "/usr/karotz/data">>,
        "Permission correction failed: ",
        <<"Data directory permissions have been corrected.">>)

\* POST /rfid/record/start
RfidRecordStart ==
    CommandEndpoint("rfid.record.start", EmptyObj,
        LogInfo(<<"Starting RFID recording mode.">>, "RFID"),
        <<"/usr/karotz/bin/rfid_record", "--start">>,
        "Failed to start RFID recording: ",
        <<"RFID recording started. Present a tag.">>)

\* POST /rfid/record/stop
RfidRecordStop ==
    CommandEndpoint("rfid.record.stop", EmptyObj,
        LogInfo(<<"Stopping RFID recording mode.">>, "RFID"),
        <<"/usr/karotz/bin/rfid_record", "--stop">>,
        "Failed to stop RFID recording: ",
        <<"RFID recording stopped.">>)

\* GET /tools/backup/rfid
ToolsBackupRfid ==
    CommandEndpoint("tools.backup.rfid", EmptyObj,
        LogInfo(<<"Creating RFID backup.">>, "Tools"),
        <<"tar", "-czf", "/tmp/rfid_backup.tar.gz", "/usr/karotz/data/Rfid">>,
        "RFID backup failed: ",
        <<"RFID backup created successfully at ", "/tmp/rfid_backup.tar.gz">>)

\* POST /media/snapshots/capture?silent=...
MediaCaptureSnapshot ==
    \E silent \in BOOLEAN :
        CommandEndpoint("media.snapshots.capture", Obj("silent" :> JBool(silent)),
            LogInfo(<<"Capturing snapshot (silent: ", ToString(silent), ").">>, "Media"),
            <<"/usr/karotz/bin/snapshot.sh">> \o (IF silent THEN <<"--silent">> ELSE <<>>),
            "Snapshot capture failed: ",
            <<"Snapshot captured successfully.">>)

\* truthiness of an Optional[str] field of a request: None and "" are falsy
Given(body, k) == Has(body, k) /\ body.fields[k].t = "str" /\ body.fields[k].s # <<>>

PlaybackBodies ==
    { EmptyObj,
      Obj("id" :> JStr(<<"bell.mp3">>)),
      Obj("id" :> JStr(<<"gone.mp3">>)),
      Obj("url" :> JStr(<<"http://radio/stream.mp3">>)),
      Obj("id" :> JStr(<<>>) @@ "url" :> JStr(<<"http://radio/stream.mp3">>)) }

\* POST /media/sounds/play
MediaPlaySound ==
    /\ pc = "idle"
    /\ \E body \in PlaybackBodies :
         LET kind == "media.sounds.play"
             id == body.fields["id"].s
             target == IF Given(body, "id")
                       THEN <<PathText(<<"Sounds", id[1]>>)>>
                       ELSE body.fields["url"].s
             info == IF Given(body, "id")
                     THEN LogInfo(<<"Playing sound with id: ">> \o id, "Media")
                     ELSE LogInfo(<<"Playing sound from url: ">> \o target, "Media")
             command == <<"/usr/bin/mplayer">> \o target
         IN  \/ /\ ~Given(body, "id") /\ ~Given(body, "url")
                /\ Answer(kind, body,
                          Error(400, <<"Either 'id' or 'url' must be provided.">>),
                          <<>>, <<>>, fs)
             \/ /\ Given(body, "id") /\ ~Exists(fs, <<"Sounds", id[1]>>)
                /\ Answer(kind, body,
                          Error(404, <<"Sound with id '">> \o id \o <<"' not found.">>),
                          <<>>, <<>>, fs)
             \/ /\ \/ Given(body, "id") /\ Exists(fs, <<"Sounds", id[1]>>)
                   \/ ~Given(body, "id") /\ Given(body, "url")
                /\ \E o \in EndpointOutcomes :
                     LET r == RunCommand(command, o)
                     IN  Answer(kind, body,
                                IF r.success THEN Ok(<<"Sound playback started.">>)
                                ELSE Error(500, <<"Playback failed: ">> \o r.output),
                                <<Run(command, o, r)>>, <<info>> \o r.log, fs)

\* POST /media/sounds/control
MediaControlSound ==
    /\ pc = "idle"
    /\ \E cmd \in {"pause", "stop", "quit", "resume"} :
         LET kind == "media.sounds.control"
             body == Obj("command" :> JStr(<<cmd>>))
             info == LogInfo(<<"Sound control command: ", cmd>>, "Media")
             sent == Ok(<<"Playback ", cmd, " command sent.">>)
         IN  \/ /\ cmd \in {"stop", "quit"}
                /\ \E o \in EndpointOutcomes \cup {NoProcessFound} :
                     LET r == KillProcess("mplayer", o)
                     IN  Answer(kind, body, sent,
                                <<Run(<<"killall", "mplayer">>, o, r)>>,
                                <<info>> \o r.log, fs)
             \/ /\ cmd \notin {"stop", "quit"}
                /\ Answer(kind, body, sent, <<>>, <<info>>, fs)

RfidAssignments ==
    { Obj("action_type" :> JStr(<<"url">>) @@ "value" :> JStr(<<"http://radio/stream.mp3">>)),
      Obj("action_type" :> JStr(<<"karotz_action">>) @@ "value" :> JStr(<<"sleep">>)) }

\* POST /rfid/test
RfidTest ==
    /\ pc = "idle"
    /\ \E assignment \in RfidAssignments :
         LET kind == "rfid.test"
             action_type == assignment.fields["action_type"].s
             info == LogInfo(<<"Testing RFID action: ">> \o action_type, "RFID")
             command == <<"/usr/bin/mplayer">> \o assignment.fields["value"].s
             done == Ok(<<"Test action executed successfully.">>)
         IN  \/ /\ action_type = <<"url">>
                /\ \E o \in EndpointOutcomes :
                     LET r == RunCommand(command, o)
                     IN  Answer(kind, assignment, done,
                                <<Run(command, o, r)>>, <<info>> \o r.log, fs)
             \/ /\ action_type # <<"url">>
                /\ Answer(kind, assignment, done, <<>>, <<info>>, fs)

TtsTexts == {<<"hello">>, <<"bonjour">>}

\* f"{hash(request.text)}.mp3": the hash is a function of the text alone
CacheFilename(text) ==
    CASE text = <<"hello">> -> "5d41402a.mp3"
      [] text = <<"bonjour">> -> "f02368945.mp3"

\* voice_map.get(request.voice, "en-US")
VoiceLang(voice) ==
    CASE voice = "alice" -> "en-US"
      [] voice = "bob" -> "en-GB"
      [] voice = "claire" -> "fr-FR"
      [] OTHER -> "en-US"

\* what pico2wave leaves in the wave file when it succeeds
Wave(lang, text) == <<lang, ":">> \o text

TtsBodies ==
    { Obj("text" :> JStr(t) @@ "voice" :> JStr(<<v>>) @@ "nocache" :> JBool(n)) :
        t \in TtsTexts, v \in {"alice", "claire", "zed"}, n \in BOOLEAN }

\* generate_speech with a cache entry per text and voice
TtsGenerateKeyedByVoice ==
    /\ pc = "idle"
    /\ \E body \in TtsBodies :
         LET kind == "tts.generate"
             text == body.fields["text"].s
             voice == body.fields["voice"].s[1]
             cache_path == <<"Tmp", voice \o "-" \o CacheFilename(text)>>
             lang == VoiceLang(voice)
             info == LogInfo(<<"Generating speech for text: '">> \o text
                             \o <<"' with voice '", voice, "'.">>, "TTS")
             gen == <<"pico2wave", "--wave", PathText(cache_path)>>
                    \o <<"-l", lang>> \o text
             play == <<"/usr/bin/mplayer", PathText(cache_path)>>
             played(o, before, entries, f) ==
                 LET r == RunCommand(play, o)
                 IN  Answer(kind, body,
                            IF r.success
                            THEN Ok(<<"Speech generation and playback initiated.">>)
                            ELSE Error(500, <<"Playback failed: ">> \o r.output),
                            before \o <<Run(play, o, r)>>, entries \o r.log, f)
         IN  \/ /\ body.fields["nocache"].b \/ ~Exists(fs, cache_path)
                /\ \E g \in EndpointOutcomes :
                     LET gr == RunCommand(gen, g)
                     IN  \/ /\ ~gr.success
                            /\ Answer(kind, body,
                                      Error(500, <<"TTS generation failed: ">> \o gr.output),
                                      <<Run(gen, g, gr)>>, <<info>> \o gr.log, fs)
                         \/ /\ gr.success
                            /\ \E o \in EndpointOutcomes :
                                 played(o, <<Run(gen, g, gr)>>, <<info>> \o gr.log,
                                        WriteFile(fs, cache_path, Wave(lang, text)))
             \/ /\ ~body.fields["nocache"].b /\ Exists(fs, cache_path)
                /\ \E o \in EndpointOutcomes : played(o, <<>>, <<info>>, fs)

\* POST /tts/generate
TtsGenerate ==
    /\ pc = "idle"
    /\ \E body \in TtsBodies :
         LET kind == "tts.generate"
             text == body.fields["text"].s
             voice == body.fields["voice"].s[1]
             cache_path == <<"Tmp", CacheFilename(text)>>
             lang == VoiceLang(voice)
             info == LogInfo(<<"Generating speech for text: '">> \o text
                             \o <<"' with voice '", voice, "'.">>, "TTS")
             gen == <<"pico2wave", "--wave", PathText(cache_path)>>
                    \o <<"-l", lang>> \o text
             play == <<"/usr/bin/mplayer", PathText(cache_path)>>
             played(o, before, entries, f) ==
                 LET r == RunCommand(play, o)
                 IN  Answer(kind, body,
                            IF r.success
                            THEN Ok(<<"Speech generation and playback initiated.">>)
                            ELSE Error(500, <<"Playback failed: ">> \o r.output),
                            before \o <<Run(play, o, r)>>, entries \o r.log, f)
         IN  \/ /\ body.fields["nocache"].b \/ ~Exists(fs, cache_path)
                /\ \E g \in EndpointOutcomes :
                     LET gr == RunCommand(gen, g)
                     IN  \/ /\ ~gr.success
                            /\ Answer(kind, body,
                                      Error(500, <<"TTS generation failed: ">> \o gr.output),
                                      <<Run(gen, g, gr)>>, <<info>> \o gr.log, fs)
                         \/ /\ gr.success
                            /\ \E o \in EndpointOutcomes :
                                 played(o, <<Run(gen, g, gr)>>, <<info>> \o gr.log,
                                        WriteFile(fs, cache_path, Wave(lang, text)))
             \/ /\ ~body.fields["nocache"].b /\ Exists(fs, cache_path)
                /\ \E o \in EndpointOutcomes : played(o, <<>>, <<info>>, fs)

AppIds == {"clock", "ghost"}

\* f"/usr/karotz/apps/{app_id}/install.sh"
InstallScript(app_id) ==
    <<"/usr/karotz/apps/" \o app_id, "install.sh">>

\* POST /management/apps/{app_id}/install
ManagementInstallApp ==
    /\ pc = "idle"
    /\ \E app_id \in AppIds :
         LET kind == "management.apps.install"
             body == Obj("app_id" :> JStr(<<app_id>>))
             info == LogInfo(<<"Received install request for app: ", app_id>>, "Mgmt")
             command == <<PathText(InstallScript(app_id))>>
         IN  \/ /\ ~Exists(fs, InstallScript(app_id))
                /\ Answer(kind, body,
                          Error(404, <<"Install script for app '", app_id, "' not found.">>),
                          <<>>, <<info>>, fs)
             \/ /\ Exists(fs, InstallScript(app_id))
                /\ \E o \in EndpointOutcomes :
                     LET r == RunCommand(command, o)
                     IN  Answer(kind, body,
                                IF r.success
                                THEN Ok(<<"Application '", app_id, "' installed successfully.">>)
                                ELSE Error(500, <<"Installation failed: ">> \o r.output),
                                <<Run(command, o, r)>>, <<info>> \o r.log, fs)

UpdateFiles == {<<"/tmp", "update-2.1.bin">>, <<"/tmp", "missing.bin">>}

\* POST /management/updates/flash
ManagementFlashUpdate ==
    /\ pc = "idle"
    /\ \E file \in UpdateFiles :
         LET kind == "management.updates.flash"
             body == Obj("file" :> JStr(<<PathText(file)>>))
             info == LogInfo(<<"Flashing update file: ", PathText(file)>>, "Mgmt")
             command == <<"/usr/karotz/bin/flash.sh", PathText(file)>>
         IN  \/ /\ ~Exists(fs, file)
                /\ Answer(kind, body,
                          Error(404, <<"Update file not found: ", PathText(file)>>),
                          <<>>, <<info>>, fs)
             \/ /\ Exists(fs, file)
                /\ \E o \in EndpointOutcomes :
                     LET r == RunCommand(command, o)
                     IN  Answer(kind, body,
                                IF r.success
                                THEN Ok(<<"Firmware flashing process initiated.">>)
                                ELSE Error(500, <<"Flashing failed: ">> \o r.output),
                                <<Run(command, o, r)>>, <<info>> \o r.log, fs)

RECURSIVE SplitOn(_, _)
\* text.split(sep)
SplitOn(text, sep) ==
    IF \A i \in 1..Len(text) : text[i] # sep THEN <<text>>
    ELSE LET i == CHOOSE k \in 1..Len(text) :
                    text[k] = sep /\ \A j \in 1..(k - 1) : text[j] # sep
         IN  <<SubSeq(text, 1, i - 1)>> \o SplitOn(SubSeq(text, i + 1, Len(text)), sep)

\* line.split(): the words between runs of whitespace
Words(line) == SelectSeq(line, LAMBDA c : c \notin Whitespace)

\* the decimal literals that appear as process ids
PidValue == "1" :> 1 @@ "42" :> 42

\* " ".join(parts)
JoinSpace(parts) ==
    [i \in 1..(IF parts = <<>> THEN 0 ELSE 2 * Len(parts) - 1) |->
        IF i % 2 = 1 THEN parts[(i + 1) \div 2] ELSE " "]

\* the lines of the listing after the header
ProcessLines(output) == Tail(SplitOn(Strip(output), "\n"))

\* Process(pid=int(parts[0]), user=parts[1], command=" ".join(parts[2:]))
ProcessParses(line) ==
    /\ Len(Words(line)) >= 2
    /\ Words(line)[1] \in DOMAIN PidValue

Process(line) ==
    [pid |-> PidValue[Words(line)[1]], user |-> Words(line)[2],
     command |-> JoinSpace(SubSeq(Words(line), 3, Len(Words(line))))]

PsOutcomes ==
    { Exited(0, <<"PID", " ", "USER", " ", "COMMAND", "\n",
                  "1", " ", "root", " ", "init", "\n",
                  "42", " ", "karotz", " ", "python", " ", "main.py", "\n">>, <<>>),
      Exited(0, <<"PID", " ", "USER", " ", "COMMAND", "\n", "\n", "1", " ", "root", "\n">>,
             <<>>) }

\* GET /tools/processes
ToolsListProcesses ==
    /\ pc = "idle"
    /\ \E o \in EndpointOutcomes \cup PsOutcomes :
         LET command == <<"ps", "-eo", "pid,user,comm">>
             r == RunCommand(command, o)
             lines == ProcessLines(r.output)
         IN  Answer("tools.processes", EmptyObj,
                    IF ~r.success
                    THEN Error(500, <<"Failed to list processes: ">> \o r.output)
                    ELSE IF \E i \in 1..Len(lines) : ~ProcessParses(lines[i])
                    THEN InternalServerError
                    ELSE Response(200, [processes |->
                                          [i \in 1..Len(lines) |-> Process(lines[i])]]),
                    <<Run(command, o, r)>>, r.log, fs)

\* the upload of POST /tools/restore/rfid: what tar finds inside it
Uploads ==
    { [filename |-> "rfid_backup.tar.gz", contents |-> <<"gzip">>,
       members |-> <<"Rfid", "0123ABCD.rfid">> :> <<"http://radio/stream.mp3">>] }

\* POST /tools/restore/rfid
ToolsRestoreRfid ==
    /\ pc = "idle"
    /\ \E file \in Uploads, o \in EndpointOutcomes :
         LET restore_path == <<"/tmp", file.filename>>
             command == <<"tar", "-xzf", PathText(restore_path), "-C", "/">>
             info == LogInfo(<<"Restoring RFID data from file: ", file.filename>>, "Tools")
             written == WriteFile(fs, restore_path, file.contents)
             r == RunCommand(command, o)
         IN  Answer("tools.restore.rfid", Obj("file" :> JStr(<<file.filename>>)),
                    IF r.success THEN Ok(<<"RFID data restored successfully.">>)
                    ELSE Error(500, <<"RFID restore failed: ">> \o r.output),
                    <<Run(command, o, r)>>, <<info>> \o r.log,
                    IF r.success
                    THEN RemoveFile(file.members @@ written, restore_path)
                    ELSE written)

----------------------------------------------------------------------------
(* The command runner and the endpoints built on it, one request at a time *)

\* a device with a sound, an installable application and an update package
DeviceFiles ==
    <<"Sounds", "bell.mp3">> :> <<"mp3">>
    @@ InstallScript("clock") :> <<"#!/bin/sh", "\n">>
    @@ <<"/tmp", "update-2.1.bin">> :> <<"firmware">>

Commands == {<<"/sbin/reboot">>, <<"killall", "mplayer">>}

InitCmd ==
    /\ fs \in {<<>>, DeviceFiles}
    /\ pc = "idle"
    /\ req = NoRequest
    /\ idx = 0
    /\ results = <<>>
    /\ resp = Pending
    /\ fsTrace = <<fs>>
    /\ calls = <<>>
    /\ runs = <<>>
    /\ log = <<>>
    /\ dev = NominalDevice

\* utils.run_command(command) called on its own
RunCommandCall ==
    /\ pc = "idle"
    /\ \E command \in Commands, o \in AllOutcomes :
         LET r == RunCommand(command, o)
         IN  Answer("utils.run_command", EmptyObj, Pending,
                    <<Run(command, o, r)>>, r.log, fs)

NextCmd ==
    \/ RunCommandCall
    \/ SystemReboot
    \/ SystemSleep
    \/ SystemWakeup
    \/ SystemCorrectPermissions
    \/ MediaPlaySound
    \/ MediaControlSound
    \/ MediaCaptureSnapshot
    \/ RfidRecordStart
    \/ RfidRecordStop
    \/ RfidTest
    \/ TtsGenerate
    \/ ManagementInstallApp
    \/ ManagementFlashUpdate
    \/ ToolsListProcesses
    \/ ToolsBackupRfid
    \/ ToolsRestoreRfid
    \/ Finish

SpecCmd == InitCmd /\ [][NextCmd]_vars

----------------------------------------------------------------------------
(* Claims about the command runner                                         *)

AllWhitespace(text) == \A i \in 1..Len(text) : text[i] \in Whitespace

\* t is raw without its leading and trailing whitespace
IsTrimOf(t, raw) ==
    /\ t = <<>> \/ (t[1] \notin Whitespace /\ t[Len(t)] \notin Whitespace)
    /\ \E a \in 0..Len(raw) :
         /\ a + Len(t) <= Len(raw)
         /\ SubSeq(raw, a + 1, a + Len(t)) = t
         /\ AllWhitespace(SubSeq(raw, 1, a))
         /\ AllWhitespace(SubSeq(raw, a + Len(t) + 1, Len(raw)))

\* C9: the Command Runner maps every outcome of the external program to a
\* returned pair and never raises: exit code 0 gives (true, trimmed standard
\* output), a non-zero exit gives (false, trimmed standard error), a program
\* that is not found gives (false, a message naming it), any other launch
\* failure gives (false, its message); exit 0 with "ok\n" gives (true, "ok")
\* and exit 1 with stderr "bad\n" gives (false, "bad").
C9_CommandRunnerMapsEveryOutcome ==
    \A i \in 1..Len(runs) :
        LET r == runs[i]
            o == r.outcome
        IN  /\ r.exc = "none"
            /\ r.success \in BOOLEAN
            /\ (o.kind = "exit" /\ o.code = 0) =>
                   r.success /\ IsTrimOf(r.output, o.stdout)
            /\ (o.kind = "exit" /\ o.code # 0) =>
                   ~r.success /\ IsTrimOf(r.output, o.stderr)
            /\ o.kind = "notfound" =>
                   ~r.success /\ r.output = <<"Command not found: ", r.command[1]>>
            /\ o.kind = "oserror" => ~r.success /\ r.output = o.msg
            /\ (o.kind = "exit" /\ o.code = 0 /\ o.stdout = <<"ok", "\n">>) =>
                   r.success /\ r.output = <<"ok">>
            /\ (o.kind = "exit" /\ o.code = 1 /\ o.stderr = <<"bad", "\n">>) =>
                   ~r.success /\ r.output = <<"bad">>

\* the runner was called and the program failed having written to both
\* streams, with whitespace around what it wrote to standard error
C9_Witness ==
    /\ pc = "responded"
    /\ req.kind = "utils.run_command"
    /\ Len(runs) = 1
    /\ runs[1].outcome.kind = "exit"
    /\ runs[1].outcome.code = 1
    /\ runs[1].outcome.stdout = <<"ok", "\n">>
    /\ runs[1].outcome.stderr = <<"bad", "\n">>
    /\ runs[1].output = <<"bad">>

CommandEndpoints ==
    { "system.reboot", "system.sleep", "system.wakeup", "system.correct-permissions",
      "media.sounds.play", "media.sounds.control", "media.snapshots.capture",
      "rfid.record.start", "rfid.record.stop", "rfid.test", "tts.generate",
      "management.apps.install", "management.updates.flash", "tools.processes",
      "tools.backup.rfid", "tools.restore.rfid" }

\* killing a process that is not running
NotRunning(run) ==
    /\ run.command[1] = "killall"
    /\ ~run.success
    /\ Contains(run.output, "no process found")

\* text ends with suffix
EndsWith(text, suffix) ==
    /\ Len(suffix) <= Len(text)
    /\ SubSeq(text, Len(text) - Len(suffix) + 1, Len(text)) = suffix

\* C10: every endpoint that invokes an external command answers a failed
\* command (program missing or non-zero exit) with 500 carrying the captured
\* error text, and answers success only when its commands succeeded; only
\* killing a process that is not running may be swallowed.
C10_FailedCommandAnswered500 ==
    (pc = "responded" /\ req.kind \in CommandEndpoints) =>
        /\ \A i \in 1..Len(runs) :
               (~runs[i].success /\ ~NotRunning(runs[i])) =>
                   /\ resp.code = 500
                   /\ "detail" \in DOMAIN resp.body
                   /\ EndsWith(resp.body.detail, runs[i].output)
        /\ resp.code = 200 =>
               \A i \in 1..Len(runs) : runs[i].success \/ NotRunning(runs[i])

----------------------------------------------------------------------------
(* api/routers/system.py: the status built from df                         *)

\* the first match of r'(\d+)%' in a line, by the word that holds it
PercentValue == "75%" :> 75 @@ "50%" :> 50

\* int(text) of a stripped text, for the literals that occur
IntValue == "0" :> 0 @@ "9" :> 9 @@ "120" :> 120

\* output.strip().split('\n')[-1]
LastLine(output) ==
    LET lines == SplitOn(Strip(output), "\n") IN lines[Len(lines)]

\* what get_disk_usage gives back, or the exception that leaves it
DiskUsage(exc, message, percent_used, free_space, rs, entries) ==
    [exc |-> exc, message |-> message, percent_used |-> percent_used,
     free_space |-> free_space, runs |-> rs, log |-> entries]

\* get_disk_usage(path); present is `os.path.ismount(path) or os.path.isdir(path)`,
\* o1 and o2 are what the two df commands meet
GetDiskUsage(path, present, o1, o2) ==
    LET c1 == <<"df", path>>
        c2 == <<"df", "-Ph", path>>
        r1 == RunCommand(c1, o1)
        r2 == RunCommand(c2, o2)
        found == {i \in 1..Len(LastLine(r1.output)) :
                      LastLine(r1.output)[i] \in DOMAIN PercentValue}
        percent_used == IF r1.success /\ found # {}
                        THEN PercentValue[LastLine(r1.output)[Min(found)]]
                        ELSE -1
        columns == Words(LastLine(r2.output))
        rs == <<Run(c1, o1, r1), Run(c2, o2, r2)>>
    IN  IF ~present THEN DiskUsage("none", <<>>, -1, <<"-1">>, <<>>, <<>>)
        ELSE IF r2.success /\ Len(columns) < 4
        THEN DiskUsage("IndexError", <<"list index out of range">>, percent_used,
                       <<>>, rs, r1.log \o r2.log)
        ELSE DiskUsage("none", <<>>, percent_used,
                       IF r2.success THEN <<columns[4]>> ELSE <<"-1">>,
                       rs, r1.log \o r2.log)

\* the files the status of the router opens, in the order of the dict literal
SystemStatusReads ==
    <<OK_VERSION_FILE, OK_PATCH_FILE, KAROTZ_TIME_SLEEP_FILE, LED_COLOR_FILE,
      LED_PULSE_FILE, <<"/sys/class/net/eth0", "address">>,
      <<"/sys/class/net/wlan0", "address">>>>

\* int(s) accepts s
IsInt(text) == Len(text) = 1 /\ text[1] \in DOMAIN IntValue

\* str(ValueError) of int(text)
InvalidLiteral(text) ==
    <<"invalid literal for int() with base 10: '">> \o text \o <<"'">>

\* the exception, if any, that building the dict of get_status raises: the
\* first, in the order of the dict literal, of a refused open() and of the
\* int() of the sleep time (the third read)
SystemStatusFault(f) ==
    LET refused == Refused(f, SystemStatusReads)
        sleep_time == GetFileContent(f, KAROTZ_TIME_SLEEP_FILE, <<"0">>)
        bad_int == IF 3 \notin refused /\ ~IsInt(sleep_time) THEN {3} ELSE {}
        first == Min(refused \cup bad_int)
    IN  IF refused \cup bad_int = {} THEN [exc |-> "none", message |-> <<>>]
        ELSE IF first \in bad_int
        THEN [exc |-> "ValueError", message |-> InvalidLiteral(sleep_time)]
        ELSE [exc |-> "PermissionError",
              message |-> PermissionDenied(SystemStatusReads[first])]

\* the dict get_status returns when nothing raises
SystemStatus(f, karotz, usb) ==
    [version |-> GetFileContent(f, OK_VERSION_FILE, <<"0">>),
     patch |-> GetFileContent(f, OK_PATCH_FILE, <<"0">>),
     ears_disabled |-> Exists(f, EARS_DISABLED_FILE),
     sleep_active |-> Exists(f, KAROTZ_SLEEP_FILE),
     sleep_time_remaining |->
         IntValue[GetFileContent(f, KAROTZ_TIME_SLEEP_FILE, <<"0">>)[1]],
     led_color |-> GetFileContent(f, LED_COLOR_FILE, CNF_BREEZE_COLOR),
     led_is_pulsing |-> GetFileContent(f, LED_PULSE_FILE, <<"0">>) = <<"1">>,
     mac_address_eth |-> GetMacAddress(f, "eth0"),
     mac_address_wlan |-> GetMacAddress(f, "wlan0"),
     storage_karotz_used_percent |-> karotz.percent_used,
     storage_usb_used_percent |-> usb.percent_used,
     storage_karotz_free_space |-> karotz.free_space,
     storage_usb_free_space |-> usb.free_space,
     count_tts_cache |-> GetDirCount(f, "Tmp"),
     count_rfid_tags |-> GetDirCount(f, "Rfid"),
     count_moods |-> GetDirCount(f, "Moods/fr"),
     count_sounds |-> GetDirCount(f, "Sounds"),
     count_stories |-> GetDirCount(f, "Stories")]

StatusFailedDetail == <<"Failed to retrieve system status.">>

\* except Exception as e: log the cause, raise HTTPException(500, generic)
StatusFailed(message, rs, entries) ==
    [response |-> Error(500, StatusFailedDetail),
     runs |-> rs,
     log |-> entries \o <<LogError(<<"Failed to get system status: ">> \o message,
                                   "System")>>]

\* get_status() of the router; o[1..4] are what the df commands meet
SystemGetStatusOutcome(f, o) ==
    LET karotz == GetDiskUsage("/usr", TRUE, o[1], o[2])
        usb == GetDiskUsage("/mnt/usbkey", dev.usbkey # "absent", o[3], o[4])
        fault == SystemStatusFault(f)
    IN  IF karotz.exc # "none"
        THEN StatusFailed(karotz.message, karotz.runs, karotz.log)
        ELSE IF usb.exc # "none"
        THEN StatusFailed(usb.message, karotz.runs \o usb.runs, karotz.log \o usb.log)
        ELSE IF fault.exc # "none"
        THEN StatusFailed(fault.message, karotz.runs \o usb.runs, karotz.log \o usb.log)
        ELSE [response |-> Response(200, SystemStatus(f, karotz, usb)),
              runs |-> karotz.runs \o usb.runs,
              log |-> karotz.log \o usb.log]

----------------------------------------------------------------------------
(* The status specification: the two status handlers on varied devices     *)

UsrStat == Stat(1024, 4096, 4096)
UsbStat == Stat(2048, 4096, 4096)
IoError(path) == <<"[Errno 5] Input/output error: '", path, "'">>
StaleHandle(path) == <<"[Errno 116] Stale file handle: '", path, "'">>

StatusDevices ==
    { NominalDevice,
      Device("dir", UsrStat, Stat(0, 0, 0), {}),
      Device("mounted", UsrStat, UsbStat, {}),
      Device("mounted", UsrStat, StatFails(IoError("/mnt/usbkey")), {}),
      Device("absent", StatFails(IoError("/usr")), Stat(0, 0, 0), {}),
      Device("absent", StatFails(StaleHandle("/usr")), Stat(0, 0, 0), {}),
      Device("absent", Stat(0, 4096, 0), Stat(0, 0, 0), {}),
      Device("dir", UsrStat, Stat(0, 0, 0), {LED_COLOR_FILE}),
      Device("absent", UsrStat, Stat(0, 0, 0), {OK_VERSION_FILE}) }

StatusFilesystems ==
    { <<>>,
      KAROTZ_TIME_SLEEP_FILE :> <<"120", "\n">> @@ LED_COLOR_FILE :> RED
          @@ OK_VERSION_FILE :> <<"2.1", "\n">>
          @@ <<"/sys/class/net/eth0", "address">> :> <<"00:0e:8e:2c:aa:01", "\n">>
          @@ <<"Rfid", "0123ABCD.rfid">> :> <<"http://radio/stream.mp3">>,
      KAROTZ_TIME_SLEEP_FILE :> <<"soon", "\n">> @@ LED_COLOR_FILE :> RED,
      KAROTZ_TIME_SLEEP_FILE :> <<"\n">> @@ OK_VERSION_FILE :> <<"2.1", "\n">> }

DfHeader ==
    <<"Filesystem", " ", "Size", " ", "Used", " ", "Avail", " ", "Use%", " ",
      "Mounted", " ", "on", "\n">>

\* what df prints for the filesystem that holds the path: the key's own when
\* it is mounted, the root filesystem otherwise
DfLine(path) ==
    IF path = "/mnt/usbkey" /\ dev.usbkey = "mounted"
    THEN <<"/dev/sda1", " ", "16M", " ", "8M", " ", "8M", " ", "50%", " ",
           "/mnt/usbkey", "\n">>
    ELSE <<"/dev/root", " ", "16M", " ", "12M", " ", "4M", " ", "75%", " ", "/", "\n">>

\* what a df command may meet: the listing, a listing cut short, a failure,
\* no df at all
DfOutcomes(path) ==
    { Exited(0, DfHeader \o DfLine(path), <<>>),
      Exited(0, <<"/dev/root", " ", "75%", "\n">>, <<>>),
      Exited(1, <<>>, <<"df: ", path, ": Input/output error", "\n">>),
      NotFound }

InitStatus ==
    /\ fs \in StatusFilesystems
    /\ dev \in StatusDevices
    /\ pc = "idle"
    /\ req = NoRequest
    /\ idx = 0
    /\ results = <<>>
    /\ resp = Pending
    /\ fsTrace = <<fs>>
    /\ calls = <<>>
    /\ runs = <<>>
    /\ log = <<>>

\* GET /system/status
SystemGetStatus ==
    /\ pc = "idle"
    /\ \E o1 \in DfOutcomes("/usr"), o2 \in DfOutcomes("/usr"),
          o3 \in DfOutcomes("/mnt/usbkey"), o4 \in DfOutcomes("/mnt/usbkey") :
         LET out == SystemGetStatusOutcome(fs, <<o1, o2, o3, o4>>)
         IN  Answer("system.status", EmptyObj, out.response, out.runs, out.log, fs)

\* POST /agent/mcp {"actions": [{"type": "status.get"}]}
McpReceiveStatus ==
    /\ pc = "idle"
    /\ req' = McpRequest(<<ActionNoParams("status.get")>>)
    /\ pc' = "mcp"
    /\ idx' = 0
    /\ results' = <<>>
    /\ resp' = Pending
    /\ fsTrace' = <<fs>>
    /\ calls' = <<>>
    /\ UNCHANGED <<fs, runs, log, dev>>

NextStatus ==
    \/ HttpGetStatus
    \/ SystemGetStatus
    \/ McpReceiveStatus
    \/ McpExecute
    \/ McpReturn
    \/ Finish

SpecStatus == InitStatus /\ [][NextStatus]_vars

----------------------------------------------------------------------------
(* Claims about the status snapshot                                        *)

\* a status request has been answered
StatusAnswered ==
    /\ pc = "responded"
    /\ req.kind \in {"status", "system.status", "mcp"}

\* the answer is a status, not an error
StatusSucceeded ==
    CASE req.kind = "mcp" -> resp.code = 200 /\ results[1].status = "success"
      [] OTHER -> resp.code = 200

\* the status carried by a successful answer
StatusData == IF req.kind = "mcp" THEN results[1].data ELSE resp.body

\* every df command of the request printed a whole listing
DfListed ==
    \A i \in 1..Len(runs) :
        runs[i].success /\ Len(Words(LastLine(runs[i].output))) >= 4

SleepTimeText == GetFileContent(fs, KAROTZ_TIME_SLEEP_FILE, <<"0">>)

\* nothing but the state of the USB key stands in the way of the status
OtherwiseHealthy ==
    /\ dev.usr.ok
    /\ dev.unreadable = {}
    /\ IsInt(SleepTimeText)
    /\ DfListed

\* C11: when /mnt/usbkey is not mounted, absent or a plain directory, the
\* status call succeeds and its USB used-percentage and USB free-space
\* fields are the sentinel -1 / "-1".
C11_UnmountedUsbReportsSentinel ==
    (StatusAnswered /\ dev.usbkey # "mounted" /\ OtherwiseHealthy) =>
        /\ StatusSucceeded
        /\ IF req.kind = "system.status"
           THEN /\ StatusData.storage_usb_used_percent = -1
                /\ StatusData.storage_usb_free_space = <<"-1">>
           ELSE /\ StatusData.usb_percent_used_space = <<"-1">>
                /\ StatusData.usb_free_space = <<"-1">>

\* the computation of some field of the status fails
FieldFault ==
    \/ ~dev.usr.ok
    \/ dev.usbkey = "mounted" /\ ~dev.usb.ok
    \/ \E path \in dev.unreadable : Exists(fs, path)
    \/ req.kind = "system.status" /\ ~DfListed

\* the fields that come from readable files and directories have their values
ReadableFieldsCorrect ==
    /\ OK_VERSION_FILE \notin dev.unreadable =>
           StatusData.version = GetFileContent(fs, OK_VERSION_FILE, <<"0">>)
    /\ LED_COLOR_FILE \notin dev.unreadable =>
           StatusData.led_color = GetFileContent(fs, LED_COLOR_FILE, CNF_BREEZE_COLOR)
    /\ IF req.kind = "system.status"
       THEN StatusData.count_rfid_tags = GetDirCount(fs, "Rfid")
       ELSE StatusData.nb_tags = GetDirCount(fs, "Rfid")

\* C12: the status degrades field by field: when the computation of one
\* field fails (unparsable disk-usage output, a state file that cannot be
\* read, a failing stat call) the request still succeeds and every other
\* field has its correct value.
C12_StatusDegradesFieldByField ==
    (StatusAnswered /\ FieldFault /\ IsInt(SleepTimeText)) =>
        /\ StatusSucceeded
        /\ ReadableFieldsCorrect

\* the value a status gives for the sleep time is zero
SleepTimeIsZero ==
    IF req.kind = "system.status" THEN StatusData.sleep_time_remaining = 0
    ELSE StatusData.sleep_time = <<"0">>

\* C13: when the sleep-time file exists with non-numeric content the status
\* request reports an error, never a status; when the file is absent the
\* sleep time of the status is 0.
C13_NonNumericSleepTimeIsAnError ==
    StatusAnswered =>
        /\ (Exists(fs, KAROTZ_TIME_SLEEP_FILE) /\ ~IsInt(SleepTimeText)) =>
               ~StatusSucceeded
        /\ (~Exists(fs, KAROTZ_TIME_SLEEP_FILE) /\ StatusSucceeded) =>
               SleepTimeIsZero

\* the message of the exception that ended the aggregation, <<>> if none did
RootCause ==
    IF req.kind = "system.status"
    THEN IF \E i \in 1..Len(runs) :
                /\ runs[i].command[2] = "-Ph"
                /\ runs[i].success
                /\ Len(Words(LastLine(runs[i].output))) < 4
         THEN <<"list index out of range">>
         ELSE SystemStatusFault(fs).message
    ELSE IF GetStatus(fs).exc = "none" THEN <<>> ELSE GetStatus(fs).detail

\* the text the caller is given about a failed status
FailureText ==
    CASE req.kind = "mcp" -> results[1].details
      [] "detail" \in DOMAIN resp.body -> resp.body.detail
      [] OTHER -> resp.body.text

\* text holds the chunks of part, in order and adjacent
HoldsText(text, part) ==
    \E a \in 0..(Len(text) - Len(part)) : SubSeq(text, a + 1, a + Len(part)) = part

\* C14: when the aggregation fails with an uncaught internal exception, the
\* caller of the router's status and of the dispatcher gets a generic text
\* in which the root cause does not appear, and the root cause is in the log.
C14_RootCauseLoggedNotLeaked ==
    (StatusAnswered /\ req.kind \in {"system.status", "mcp"} /\ RootCause # <<>>) =>
        /\ ~StatusSucceeded
        /\ ~HoldsText(FailureText, RootCause)
        /\ \E i \in 1..Len(log) : HoldsText(log[i].text, RootCause)

----------------------------------------------------------------------------
(* api/routers/rfid.py: the tags kept as files <id>.rfid, <id>.name,       *)
(* <id>.color of the Rfid directory                                        *)

RFID_DIR == "Rfid"

\* file names are strings; the pieces they are made of
NameChunks == {"0123ABCD", "CAFE", ".rfid", ".name", ".color"}
NameTexts == UNION { [1..n -> NameChunks] : n \in 0..3 }

RECURSIVE Join(_)
\* "".join(chunks)
Join(chunks) == IF chunks = <<>> THEN "" ELSE chunks[1] \o Join(Tail(chunks))

\* the pieces of a file name
Chunks(name) == CHOOSE t \in NameTexts : Join(t) = name

\* f.endswith('.rfid')
EndsWithRfid(name) ==
    Chunks(name) # <<>> /\ Chunks(name)[Len(Chunks(name))] = ".rfid"

\* f.replace('.rfid', ''): every occurrence is removed
ReplaceRfid(name) == Join(SelectSeq(Chunks(name), LAMBDA c : c # ".rfid"))

\* os.path.join(config.RFID_DIR, tag_id) + ext
RfidFile(tag_id, ext) == <<RFID_DIR, tag_id \o ext>>

\* os.listdir(dir)
ListDir(f, dir) == {p[2] : p \in {q \in DOMAIN f : q[1] = dir}}

\* the first chunks of the values that start with "http"
HttpPrefixed == {"http://radio/stream.mp3", "https://radio/stream.mp3"}

\* action_raw.startswith("http")
StartsWithHttp(text) == text # <<>> /\ text[1] \in HttpPrefixed

RfidTag(tag_id, name, color, action_type, action_url, karotz_action) ==
    [tag_id |-> tag_id, name |-> name, color |-> color, action_type |-> action_type,
     action_url |-> action_url, karotz_action |-> karotz_action]

\* parse_rfid_file(tag_id); get_file_content gives None for a missing .rfid
ParseRfidFile(f, tag_id) ==
    LET name == GetFileContent(f, RfidFile(tag_id, ".name"), <<"Tag ", tag_id>>)
        color == GetFileContent(f, RfidFile(tag_id, ".color"), <<"grey">>)
        assigned == Exists(f, RfidFile(tag_id, ".rfid"))
        action_raw == IF assigned THEN Strip(f[RfidFile(tag_id, ".rfid")]) ELSE <<>>
        action_type == IF assigned /\ action_raw # <<>> /\ StartsWithHttp(action_raw)
                       THEN "url" ELSE "karotz_action"
    IN  RfidTag(tag_id, name, color, action_type,
                IF action_type = "url" THEN JStr(action_raw) ELSE JNull,
                IF action_type = "karotz_action" /\ assigned
                THEN JStr(action_raw) ELSE JNull)

\* every order in which os.listdir may give the names of S
Orders(S) ==
    {o \in [1..Cardinality(S) -> S] : \A i, j \in 1..Cardinality(S) : o[i] = o[j] => i = j}

\* list_rfid_tags() when os.listdir gives the names in the order `names`
ListRfidTags(f, names) ==
    LET rfids == SelectSeq(names, EndsWithRfid)
    IN  [i \in 1..Len(rfids) |-> ParseRfidFile(f, ReplaceRfid(rfids[i]))]

\* assign_action_to_tag(tag_id, assignment): the file system it leaves
AssignActionToTag(f, tag_id, assignment) ==
    WriteFile(f, RfidFile(tag_id, ".rfid"), assignment.fields["value"].s)

\* rename_rfid_tag(tag_id, name, color): the file system it leaves
RenameRfidTag(f, tag_id, name, color) ==
    WriteFile(WriteFile(f, RfidFile(tag_id, ".name"), name),
              RfidFile(tag_id, ".color"), color)

\* the loop of unassign_and_delete_tag keeping the .name and .color files
UnassignOnly(f, tag_id) ==
    [q \in DOMAIN f \ {RfidFile(tag_id, ".rfid")} |-> f[q]]

\* unassign_and_delete_tag(tag_id): the file system it leaves
UnassignAndDeleteTag(f, tag_id) ==
    [q \in DOMAIN f \ {RfidFile(tag_id, ext) : ext \in {".rfid", ".name", ".color"}}
        |-> f[q]]

TagDeleted(tag_id) == Ok(<<"Tag ", tag_id, " has been deleted.">>)

----------------------------------------------------------------------------
(* The tag specification: assign, rename, delete and list, one at a time   *)

TagIds == {"0123ABCD", "CAFE"}

\* RfidAssignment bodies: a URL, a Karotz action, a home-automation address
TagAssignments ==
    RfidAssignments \cup
    { Obj("action_type" :> JStr(<<"eedomus">>) @@ "value" :> JStr(<<"192.168.1.20">>)),
      Obj("action_type" :> JStr(<<"url">>)
          @@ "value" :> JStr(<<"https://radio/stream.mp3", "\n">>)) }

\* the (name, color) bodies of a rename
TagNamings == {<<<<"Radio">>, <<"red">>>>, <<<<"Bed", " ", "time">>, <<"blue">>>>}

TagBody(tag_id) == Obj("tag_id" :> JStr(<<tag_id>>))

InitRfid ==
    /\ fs \in { <<>>,
                RfidFile("CAFE", ".rfid") :> <<"sleep">>
                    @@ RfidFile("CAFE", ".name") :> <<"Bed", " ", "time">>
                    @@ RfidFile("CAFE", ".color") :> <<"blue">> }
    /\ pc = "idle"
    /\ req = NoRequest
    /\ idx = 0
    /\ results = <<>>
    /\ resp = Pending
    /\ fsTrace = <<fs>>
    /\ calls = <<>>
    /\ runs = <<>>
    /\ log = <<>>
    /\ dev = NominalDevice

\* GET /rfid/tags
RfidList ==
    /\ pc = "idle"
    /\ \E names \in Orders(ListDir(fs, RFID_DIR)) :
         Answer("rfid.list", EmptyObj, Response(200, ListRfidTags(fs, names)),
                <<>>, <<>>, fs)

\* rename_rfid_tag(tag_id, name, color)
RenameTag(tag_id, naming) ==
    LET after == RenameRfidTag(fs, tag_id, naming[1], naming[2])
    IN  Answer("rfid.rename",
               Obj("tag_id" :> JStr(<<tag_id>>) @@ "name" :> JStr(naming[1])
                   @@ "color" :> JStr(naming[2])),
               Response(200, ParseRfidFile(after, tag_id)), <<>>,
               <<LogInfo(<<"Renaming tag ", tag_id, " to '">> \o naming[1]
                         \o <<"' with color '">> \o naming[2] \o <<"'.">>, "RFID")>>,
               after)

\* PATCH /rfid/tags/{tag_id}
RfidRename ==
    /\ pc = "idle"
    /\ \E tag_id \in TagIds, naming \in TagNamings : RenameTag(tag_id, naming)

\* assign_action_to_tag(tag_id, assignment)
AssignTag(tag_id, assignment) ==
    LET action_type == assignment.fields["action_type"].s
    IN  Answer("rfid.assign",
               Obj(assignment.fields @@ "tag_id" :> JStr(<<tag_id>>)),
               Ok(<<"Action '">> \o action_type \o <<"' assigned to tag ", tag_id, ".">>),
               <<>>,
               <<LogInfo(<<"Assigning action '">> \o action_type
                         \o <<"' to tag ", tag_id, ".">>, "RFID")>>,
               AssignActionToTag(fs, tag_id, assignment))

\* POST /rfid/tags/{tag_id}/assign
RfidAssign ==
    /\ pc = "idle"
    /\ \E tag_id \in TagIds, assignment \in TagAssignments : AssignTag(tag_id, assignment)

\* unassign_and_delete_tag(tag_id)
DeleteTag(tag_id) ==
    Answer("rfid.delete", TagBody(tag_id), TagDeleted(tag_id), <<>>,
           <<LogInfo(<<"Deleting tag ", tag_id, ".">>, "RFID")>>,
           UnassignAndDeleteTag(fs, tag_id))

\* DELETE /rfid/tags/{tag_id}
RfidDelete ==
    /\ pc = "idle"
    /\ \E tag_id \in TagIds : DeleteTag(tag_id)

NextRfid ==
    \/ RfidList
    \/ RfidRename
    \/ RfidAssign
    \/ RfidDelete
    \/ Finish

SpecRfid == InitRfid /\ [][NextRfid]_vars

----------------------------------------------------------------------------
(* Claims about the tags                                                   *)

Siblings(tag_id) == {RfidFile(tag_id, ext) : ext \in {".rfid", ".name", ".color"}}

\* the tag id of the request
RequestTag == req.body.fields["tag_id"].s[1]

\* C15: deleting a tag removes each of its files <id>.rfid, <id>.name and
\* <id>.color that is present, leaves every other file untouched, answers
\* the same success whether or not the tag existed, and deleting again
\* leaves the file system as it is.
C15_DeleteRemovesSiblingsIdempotently ==
    (pc = "responded" /\ req.kind = "rfid.delete") =>
        /\ \A path \in Siblings(RequestTag) : ~Exists(fs, path)
        /\ DOMAIN fs = DOMAIN fsTrace[1] \ Siblings(RequestTag)
        /\ \A path \in DOMAIN fs : fs[path] = fsTrace[1][path]
        /\ resp = TagDeleted(RequestTag)
        /\ UnassignAndDeleteTag(fs, RequestTag) = fs

\* a tag with its three files has been deleted beside another tag
C15_Witness ==
    /\ pc = "responded"
    /\ req.kind = "rfid.delete"
    /\ RequestTag = "CAFE"
    /\ Siblings("CAFE") \subseteq DOMAIN fsTrace[1]
    /\ Exists(fs, RfidFile("0123ABCD", ".rfid"))
    /\ Exists(fs, RfidFile("0123ABCD", ".name"))

\* the field of a listed tag that holds the value of its action
ActionField(tag) ==
    IF tag.action_type = "url" THEN tag.action_url ELSE tag.karotz_action

\* C16: after an action is assigned to a tag, listing the tags gives an
\* entry for that tag whose action type is the assigned one and whose
\* action field holds the assigned value unchanged.
C16_AssignThenListRoundTrip ==
    (pc = "responded" /\ req.kind = "rfid.assign") =>
        \A names \in Orders(ListDir(fs, RFID_DIR)) :
            \E i \in 1..Len(ListRfidTags(fs, names)) :
                LET tag == ListRfidTags(fs, names)[i]
                IN  /\ tag.tag_id = RequestTag
                    /\ <<tag.action_type>> = req.body.fields["action_type"].s
                    /\ ActionField(tag) = req.body.fields["value"]

----------------------------------------------------------------------------
(* Two POST /api/leds requests served by two worker threads.  set_led is   *)
(* a plain def, so the framework runs each request on a thread of its      *)
(* pool; the steps of one request that touch the colour file are the open  *)
(* (which creates or truncates it) and the close of the with block (which  *)
(* flushes what f.write buffered, at the offset of the freshly opened      *)
(* descriptor).  Here the text of a file is one chunk per character.       *)

Workers == {1, 2}

\* the colours of the concurrent requests, character by character
ConcurrentColours ==
    { <<"F", "F", "0", "0", "0", "0">>,
      <<"0", "0", "0", "0", "F", "F">>,
      <<"r", "e", "d">>,
      <<>> }

ConcurrentLedBodies ==
    { Obj("color" :> JStr(c)) : c \in ConcurrentColours }
    \cup { Obj("color" :> JStr(<<"r", "e", "d">>) @@ "nomemory" :> JBool(TRUE)),
           Obj("color" :> JStr(<<"r", "e", "d">>) @@ "pulse" :> JBool(TRUE)
               @@ "blink" :> JBool(TRUE)) }

\* open(path, "w"): the file exists and is empty
OpenTruncate(f, path) == WriteFile(f, path, <<>>)

\* write(fd, content) on a descriptor at offset 0 opened without O_APPEND:
\* the first Len(content) characters are replaced, what lies beyond stays
WriteAtStart(f, path, content) ==
    WriteFile(f, path, content \o SubSeq(f[path], Len(content) + 1, Len(f[path])))

InitConcurrent ==
    /\ fs \in {<<>>, LED_COLOR_FILE :> <<"0", "0", "F", "F", "0", "0">>}
    /\ pc = [w \in Workers |-> "idle"]
    /\ req = [w \in Workers |-> NoRequest]
    /\ resp = [w \in Workers |-> Pending]
    /\ idx = 0
    /\ results = <<>>
    /\ fsTrace = <<fs>>
    /\ calls = <<>>
    /\ runs = <<>>
    /\ log = <<>>
    /\ dev = NominalDevice

\* a worker takes a request: set_led up to the test of nomemory
LedReceive(w) ==
    /\ pc[w] = "idle"
    /\ \E body \in ConcurrentLedBodies :
         LET action == LedAction(body)
         IN  /\ req' = [req EXCEPT ![w] = HttpRequest("leds", body)]
             /\ IF Truthy(action.pulse) /\ Truthy(action.blink)
                THEN /\ resp' = [resp EXCEPT ![w] = HttpResponse(SetLed(action, fs))]
                     /\ pc' = [pc EXCEPT ![w] = "responded"]
                ELSE IF Truthy(action.nomemory)
                THEN /\ resp' = [resp EXCEPT ![w] = HttpResponse(SetLed(action, fs))]
                     /\ pc' = [pc EXCEPT ![w] = "responded"]
                ELSE /\ resp' = resp
                     /\ pc' = [pc EXCEPT ![w] = "open"]
    /\ UNCHANGED <<fs, idx, results, fsTrace, calls, runs, log, dev>>

\* with open(".../Run/led.color", "w") as f
LedOpen(w) ==
    /\ pc[w] = "open"
    /\ fs' = OpenTruncate(fs, LED_COLOR_FILE)
    /\ pc' = [pc EXCEPT ![w] = "write"]
    /\ calls' = Append(calls, <<w, "open">>)
    /\ UNCHANGED <<req, resp, idx, results, fsTrace, runs, log, dev>>

\* f.write(action.color), the end of the with block, and the return
LedWriteClose(w) ==
    /\ pc[w] = "write"
    /\ fs' = WriteAtStart(fs, LED_COLOR_FILE, LedAction(req[w].body).color)
    /\ pc' = [pc EXCEPT ![w] = "responded"]
    /\ resp' = [resp EXCEPT ![w] =
                  Response(200, [return_code |-> <<"0">>,
                                 message |-> <<"LED command received.">>])]
    /\ calls' = Append(calls, <<w, "write">>)
    /\ UNCHANGED <<req, idx, results, fsTrace, runs, log, dev>>

NextConcurrent ==
    \E w \in Workers :
        \/ LedReceive(w)
        \/ LedOpen(w)
        \/ LedWriteClose(w)

SpecConcurrent == InitConcurrent /\ [][NextConcurrent]_vars

\* both requests have been answered and both wrote the colour file
BothWrote ==
    /\ \A w \in Workers : pc[w] = "responded"
    /\ \A w \in Workers : \E i \in 1..Len(calls) : calls[i] = <<w, "write">>

\* C17: under every interleaving of two requests that open, truncate, write
\* and close the colour file, the final content is exactly the complete
\* value written by one of the two requests, never a mixture of both.
C17_LastWriteWins ==
    BothWrote =>
        /\ Exists(fs, LED_COLOR_FILE)
        /\ fs[LED_COLOR_FILE] \in {LedAction(req[w].body).color : w \in Workers}

----------------------------------------------------------------------------
(* Reboot and sleep asked through the dispatcher and through the routers   *)

DeviceActions ==
    { ActionNoParams("device.reboot"),
      ActionNoParams("device.sleep"),
      Action("device.sleep", NotObj("NoneType")) }

DeviceBatches == UNION { [1..n -> DeviceActions] : n \in 1..MaxBatch }

\* POST /agent/mcp with reboot and sleep actions
McpReceiveDevice ==
    /\ pc = "idle"
    /\ \E actions \in DeviceBatches : req' = McpRequest(actions)
    /\ pc' = "mcp"
    /\ idx' = 0
    /\ results' = <<>>
    /\ resp' = Pending
    /\ fsTrace' = <<fs>>
    /\ calls' = <<>>
    /\ UNCHANGED <<fs, runs, log, dev>>

NextDevice ==
    \/ SystemReboot
    \/ SystemSleep
    \/ McpReceiveDevice
    \/ McpExecute
    \/ McpReturn
    \/ Finish

SpecDevice == InitCmd /\ [][NextDevice]_vars

\* the program the HTTP endpoint of an action type runs
EndpointCommand ==
    "device.reboot" :> <<"/sbin/reboot">>
    @@ "device.sleep" :> <<"/usr/karotz/bin/sleep.sh">>

\* C18: dispatching device.reboot or device.sleep has the external effect of
\* the HTTP endpoint POST /system/reboot or POST /system/sleep: the
\* endpoint's command is invoked, and the action reports success only when
\* that command succeeded.
C18_DispatcherReusesRouterHandlers ==
    (pc = "responded" /\ req.kind = "mcp") =>
        \A i \in 1..Len(results) :
            (results[i].action \in DOMAIN EndpointCommand
             /\ results[i].status = "success") =>
                \E j \in 1..Len(runs) :
                    /\ runs[j].command = EndpointCommand[results[i].action]
                    /\ runs[j].success

----------------------------------------------------------------------------
(* Claims about the speech cache                                           *)

\* the positions in `runs` of the invocations of a program
RunsOf(program) == {j \in 1..Len(runs) : runs[j].command[1] = program}

\* the cache entry of a text, whatever the voice
CacheEntry(text) == <<"Tmp", CacheFilename(text)>>

\* C19: the cache entry is keyed by the text only.  A generate request with
\* nocache false whose text already has an entry does not invoke the
\* synthesizer, leaves the entry as the earlier request (of whatever voice)
\* produced it and plays that entry; with nocache true the synthesizer is
\* invoked first, before any playback; a synthesis writes the entry of the
\* text.
C19_CacheKeyedByTextOnly ==
    (pc = "responded" /\ req.kind = "tts.generate") =>
        LET text == req.body.fields["text"].s
            nocache == req.body.fields["nocache"].b
            lang == VoiceLang(req.body.fields["voice"].s[1])
            before == fsTrace[1]
            entry == CacheEntry(text)
        IN  /\ \A j \in RunsOf("/usr/bin/mplayer") :
                 runs[j].command = <<"/usr/bin/mplayer", PathText(entry)>>
            /\ (~nocache /\ Exists(before, entry)) =>
                 /\ RunsOf("pico2wave") = {}
                 /\ RunsOf("/usr/bin/mplayer") = {1}
                 /\ fs = before
            /\ nocache =>
                 /\ RunsOf("pico2wave") = {1}
                 /\ \A j \in RunsOf("/usr/bin/mplayer") : j > 1
            /\ (RunsOf("pico2wave") # {} /\ runs[1].success) =>
                 /\ fs[entry] = Wave(lang, text)
                 /\ RunsOf("/usr/bin/mplayer") = {2}
            /\ resp.code = 200 => Exists(fs, entry)

\* a text synthesized for one voice is asked again with a voice of another
\* language and nocache false: the entry of the first voice is played
C19_Witness ==
    /\ pc = "responded"
    /\ req.kind = "tts.generate"
    /\ resp.code = 200
    /\ ~req.body.fields["nocache"].b
    /\ req.body.fields["voice"].s = <<"claire">>
    /\ Exists(fsTrace[1], CacheEntry(req.body.fields["text"].s))
    /\ fs[CacheEntry(req.body.fields["text"].s)]
         = Wave("en-US", req.body.fields["text"].s)
    /\ runs # <<>>

----------------------------------------------------------------------------
(* The file reader called on its own                                       *)

\* what a state file may hold: values with and without whitespace around
ContentChunks == {" ", "FF0000", "\n"}
Contents == UNION { [1..n -> ContentChunks] : n \in 0..MaxContent }

\* the paths read: one that may exist, one that never does
ReadPaths == {LED_COLOR_FILE, KAROTZ_TIME_SLEEP_FILE}

\* the defaults supplied: None (the default of utils.get_file_content), "0"
\* (the default of api/main.py), and texts that trimming would change
Defaults ==
    { JNull, JStr(<<"0">>), JStr(<<>>), JStr(<<"\n">>),
      JStr(<<" ", "00FF00", "\n">>) }

\* get_file_content(path, default) with an Optional[str] default
ReadFile(f, path, default) ==
    IF default.t = "null"
    THEN (IF Exists(f, path) THEN JStr(GetFileContent(f, path, <<>>)) ELSE JNull)
    ELSE JStr(GetFileContent(f, path, default.s))

InitRead ==
    /\ fs \in {<<>>} \cup { LED_COLOR_FILE :> c : c \in Contents }
    /\ pc = "idle"
    /\ req = NoRequest
    /\ idx = 0
    /\ results = <<>>
    /\ resp = Pending
    /\ fsTrace = <<fs>>
    /\ calls = <<>>
    /\ runs = <<>>
    /\ log = <<>>
    /\ dev = NominalDevice

GetFileContentCall ==
    /\ pc = "idle"
    /\ \E path \in ReadPaths, default \in Defaults :
         Answer("utils.get_file_content",
                Obj("path" :> JStr(path) @@ "default" :> default),
                Response(0, ReadFile(fs, path, default)), <<>>, <<>>, fs)

NextRead ==
    \/ GetFileContentCall
    \/ Finish

SpecRead == InitRead /\ [][NextRead]_vars

\* C20: reading a path that does not exist returns exactly the supplied
\* default, not trimmed and not coerced; reading an existing file returns
\* its contents without the leading and trailing whitespace, whatever the
\* default; the file system is left as it was.
C20_ReadReturnsDefaultOrTrimmedContent ==
    (pc = "responded" /\ req.kind = "utils.get_file_content") =>
        LET path == req.body.fields["path"].s
            default == req.body.fields["default"]
            value == resp.body
        IN  /\ ~Exists(fs, path) => value = default
            /\ Exists(fs, path) => (value.t = "str" /\ IsTrimOf(value.s, fs[path]))
            /\ fs = fsTrace[1]

\* an absent path was read with a default that trimming would change
C20_Witness ==
    /\ pc = "responded"
    /\ req.kind = "utils.get_file_content"
    /\ ~Exists(fs, req.body.fields["path"].s)
    /\ Exists(fs, LED_COLOR_FILE)
    /\ req.body.fields["default"] = JStr(<<" ", "00FF00", "\n">>)
    /\ resp.body = JStr(<<" ", "00FF00", "\n">>)

----------------------------------------------------------------------------
(* core/utils.py get_dir_file_count and api/main.py get_dir_count called   *)
(* on their own.  A directory exists when a file lies in it or beneath it. *)

\* the directories of the data directory and the subdirectories they hold
Subdirs ==
    "Moods" :> {"fr"} @@ "Moods/fr" :> {} @@ "Sounds" :> {} @@ "Stories" :> {}

\* the regular files a device may hold
CountableFiles ==
    { <<"Moods", "happy.mp3">>, <<"Moods", "sad.mp3">>,
      <<"Moods/fr", "1.mp3">>, <<"Moods/fr", "2.mp3">>,
      <<"Sounds", "bell.mp3">>, <<"Sounds", "fr">> }

CountFilesystems == { [p \in S |-> <<"x">>] : S \in SUBSET CountableFiles }

\* os.path.join(path, name)
JoinPath(dir, name) == dir \o "/" \o name

\* os.path.isdir(path)
IsDir(f, dir) ==
    /\ dir \in DOMAIN Subdirs
    /\ \/ \E p \in DOMAIN f : p[1] = dir
       \/ \E n \in Subdirs[dir] : \E p \in DOMAIN f : p[1] = JoinPath(dir, n)

\* os.path.isfile(os.path.join(path, name))
IsFile(f, dir, name) == Exists(f, <<dir, name>>)

\* os.listdir(path): the files and the subdirectories directly inside
OsListDir(f, dir) ==
    ListDir(f, dir) \cup {n \in Subdirs[dir] : IsDir(f, JoinPath(dir, n))}

\* get_dir_file_count counting every entry of the directory
GetDirFileCountAllEntries(f, dir) ==
    IF ~IsDir(f, dir) THEN 0 ELSE Cardinality(OsListDir(f, dir))

\* get_dir_file_count(path)
GetDirFileCount(f, dir) ==
    IF ~IsDir(f, dir) THEN 0
    ELSE Cardinality({name \in OsListDir(f, dir) : IsFile(f, dir, name)})

CountedDirs == {"Moods", "Moods/fr", "Sounds", "Stories"}

InitCount ==
    /\ fs \in CountFilesystems
    /\ pc = "idle"
    /\ req = NoRequest
    /\ idx = 0
    /\ results = <<>>
    /\ resp = Pending
    /\ fsTrace = <<fs>>
    /\ calls = <<>>
    /\ runs = <<>>
    /\ log = <<>>
    /\ dev = NominalDevice

\* utils.get_dir_file_count(path)
GetDirFileCountCall ==
    /\ pc = "idle"
    /\ \E dir \in CountedDirs :
         Answer("utils.get_dir_file_count", Obj("path" :> JStr(<<dir>>)),
                Response(0, JInt(GetDirFileCount(fs, dir))), <<>>, <<>>, fs)

\* get_dir_count(path) of api/main.py
GetDirCountCall ==
    /\ pc = "idle"
    /\ \E dir \in CountedDirs :
         Answer("main.get_dir_count", Obj("path" :> JStr(<<dir>>)),
                Response(0, JInt(GetDirCount(fs, dir))), <<>>, <<>>, fs)

NextCount ==
    \/ GetDirFileCountCall
    \/ GetDirCountCall
    \/ Finish

SpecCount == InitCount /\ [][NextCount]_vars

\* the directory asked for
CountedDir == req.body.fields["path"].s[1]

\* the regular files directly inside a directory
FilesDirectlyIn(dir) == {p \in CountableFiles : p \in DOMAIN fs /\ p[1] = dir}

\* C21: counting the files of a directory that does not exist gives 0, not
\* an error; otherwise it gives the number of regular files directly inside
\* the directory, counting neither its subdirectories nor the files nested
\* inside them.
C21_CountsRegularFilesDirectlyInside ==
    (pc = "responded"
     /\ req.kind \in {"utils.get_dir_file_count", "main.get_dir_count"}) =>
        /\ resp.body.t = "int"
        /\ resp.body.n = Cardinality(FilesDirectlyIn(CountedDir))
        /\ (\A p \in DOMAIN fs : p[1] \notin {CountedDir, JoinPath(CountedDir, "fr")})
             => resp.body.n = 0
        /\ fs = fsTrace[1]

\* a directory holding two files and a subdirectory with files was counted
C21_Witness ==
    /\ pc = "responded"
    /\ req.kind = "utils.get_dir_file_count"
    /\ CountedDir = "Moods"
    /\ Exists(fs, <<"Moods", "happy.mp3">>)
    /\ Exists(fs, <<"Moods", "sad.mp3">>)
    /\ Exists(fs, <<"Moods/fr", "1.mp3">>)
    /\ resp.body = JInt(2)

----------------------------------------------------------------------------
(* LED requests on a device that holds other state files                   *)

\* the state files beside the colour file
OtherStateFiles ==
    LED_PULSE_FILE :> <<"1", "\n">>
    @@ KAROTZ_SLEEP_FILE :> <<"0">>
    @@ EARS_DISABLED_FILE :> <<"1">>
    @@ RfidFile("0123ABCD", ".rfid") :> <<"http://radio/stream.mp3">>

LedFilesystems ==
    { <<>>, OtherStateFiles, OtherStateFiles @@ LED_COLOR_FILE :> WHITE }

LedActions ==
    {ActionNoParams("status.get")} \cup { Action("leds.set", b) : b \in LedBodies }

LedBatches == UNION { [1..n -> LedActions] : n \in 1..MaxBatch }

InitLed ==
    /\ fs \in LedFilesystems
    /\ pc = "idle"
    /\ req = NoRequest
    /\ idx = 0
    /\ results = <<>>
    /\ resp = Pending
    /\ fsTrace = <<fs>>
    /\ calls = <<>>
    /\ runs = <<>>
    /\ log = <<>>
    /\ dev = NominalDevice

\* POST /agent/mcp with leds.set and status.get actions
McpReceiveLed ==
    /\ pc = "idle"
    /\ \E actions \in LedBatches : req' = McpRequest(actions)
    /\ pc' = "mcp"
    /\ idx' = 0
    /\ results' = <<>>
    /\ resp' = Pending
    /\ fsTrace' = <<fs>>
    /\ calls' = <<>>
    /\ UNCHANGED <<fs, runs, log, dev>>

NextLed ==
    \/ HttpSetLed
    \/ HttpGetStatus
    \/ McpReceiveLed
    \/ McpExecute
    \/ McpReturn
    \/ Finish

SpecLed == InitLed /\ [][NextLed]_vars

\* what a carried-out LED request may change between two file systems
LedFrame(led, before, after) ==
    /\ \A path \in (DOMAIN before \cup DOMAIN after) \ {LED_COLOR_FILE} :
         /\ path \in DOMAIN before
         /\ path \in DOMAIN after
         /\ after[path] = before[path]
    /\ ~Truthy(led.nomemory) =>
         (Exists(after, LED_COLOR_FILE) /\ after[LED_COLOR_FILE] = led.color)
    /\ Truthy(led.nomemory) => after = before

\* the valid LED requests carried out by the answered request, each with the
\* file systems around it and the colour a status request reported next
\* (the status handler applied to the file system left, for POST /api/leds)
LedRequestsDone ==
    IF pc = "responded" /\ req.kind = "leds" /\ resp.code = 200
    THEN { [led |-> LedAction(req.body), before |-> fsTrace[1], after |-> fs,
            reported |-> <<GetStatus(fs).ret.led_color>>] }
    ELSE IF Batch
    THEN { [led |-> LedAction(Params(req.actions[i])),
            before |-> fsTrace[i], after |-> fsTrace[i + 1],
            reported |-> IF i + 1 \in Executed /\ req.actions[i + 1].type = "status.get"
                         THEN <<results[i + 1].data.led_color>> ELSE <<>>] :
           i \in {j \in Executed : /\ req.actions[j].type = "leds.set"
                                   /\ results[j].status = "success"} }
    ELSE {}

\* C22 as stated: a valid LED request changes at most the colour file; with
\* nomemory false the file holds exactly the request's colour and a following
\* status request reports that colour; with nomemory true the file system is
\* as before; no other state file is modified.
C22_LedSetChangesOnlyColourFile ==
    \A d \in LedRequestsDone :
        /\ LedFrame(d.led, d.before, d.after)
        /\ (~Truthy(d.led.nomemory) /\ d.reported # <<>>) =>
             d.reported[1] = d.led.color

\* C22 (amended): a valid LED request changes at most the colour file; with
\* nomemory false the file holds exactly the request's colour and a following
\* status request reports that colour with its leading and trailing
\* whitespace removed; with nomemory true the file system is as before; no
\* other state file is modified.
C22_LedSetChangesOnlyColourFileTrimmed ==
    \A d \in LedRequestsDone :
        /\ LedFrame(d.led, d.before, d.after)
        /\ (~Truthy(d.led.nomemory) /\ d.reported # <<>>) =>
             d.reported[1] = Strip(d.led.color)

\* beside other state files, a padded colour is persisted and reported by the
\* next status request, and a later nomemory request leaves it in place
C22_Witness ==
    /\ Batch /\ pc = "responded" /\ Len(req.actions) = 3
    /\ DOMAIN OtherStateFiles \subseteq DOMAIN fsTrace[1]
    /\ Persisting(req.actions[1]) /\ Colour(req.actions[1]) = PADDED_BLUE
    /\ req.actions[2].type = "status.get"
    /\ results[2].data.led_color = <<"0000FF">>
    /\ req.actions[3].type = "leds.set"
    /\ results[3].status = "success"
    /\ Truthy(LedAction(Params(req.actions[3])).nomemory)
    /\ fs = OtherStateFiles @@ LED_COLOR_FILE :> PADDED_BLUE

----------------------------------------------------------------------------
(* The tag store: tags assigned, renamed, deleted, listed and counted,     *)
(* among them a tag whose id contains ".rfid"                              *)

StoredTagIds == {"CAFE", "CAFE.rfid"}

\* POST /rfid/tags/{tag_id}/assign
TagStoreAssign ==
    /\ pc = "idle"
    /\ \E tag_id \in StoredTagIds, assignment \in RfidAssignments :
         AssignTag(tag_id, assignment)

\* PATCH /rfid/tags/{tag_id}
TagStoreRename ==
    /\ pc = "idle"
    /\ \E tag_id \in StoredTagIds : RenameTag(tag_id, <<<<"Radio">>, <<"red">>>>)

\* DELETE /rfid/tags/{tag_id}
TagStoreDelete ==
    /\ pc = "idle"
    /\ \E tag_id \in StoredTagIds : DeleteTag(tag_id)

InitTagStore ==
    /\ fs = <<>>
    /\ pc = "idle"
    /\ req = NoRequest
    /\ idx = 0
    /\ results = <<>>
    /\ resp = Pending
    /\ fsTrace = <<fs>>
    /\ calls = <<>>
    /\ runs = <<>>
    /\ log = <<>>
    /\ dev = NominalDevice

NextTagStore ==
    \/ TagStoreAssign
    \/ TagStoreRename
    \/ TagStoreDelete
    \/ RfidList
    \/ SystemGetStatus
    \/ Finish

SpecTagStore == InitTagStore /\ [][NextTagStore]_vars

\* the tag ids that have an assigned action
AssignedTags == {t \in StoredTagIds : Exists(fs, RfidFile(t, ".rfid"))}

\* C23: after any sequence of assign, rename and delete, a listing has
\* exactly one entry per tag id that has an assigned action, each carrying
\* the tag id used in the assign call, and the RFID tag count of the status
\* snapshot equals the number of listed tags.
C23_ListingAndCountMatchAssignedTags ==
    /\ (pc = "responded" /\ req.kind = "rfid.list") =>
         /\ Len(resp.body) = Cardinality(AssignedTags)
         /\ \A t \in AssignedTags :
              Cardinality({i \in 1..Len(resp.body) : resp.body[i].tag_id = t}) = 1
    /\ (pc = "responded" /\ req.kind = "system.status" /\ resp.code = 200) =>
         \A names \in Orders(ListDir(fs, RFID_DIR)) :
             resp.body.count_rfid_tags = Len(ListRfidTags(fs, names))

----------------------------------------------------------------------------
(* Two PATCH /rfid/tags/0123ABCD requests served by two worker threads.    *)
(* rename_rfid_tag is a plain def; its steps that touch the files are the  *)
(* open and the close of each write_file_content and the three reads of    *)
(* parse_rfid_file.  The names have one length and so have the colours, so *)
(* a write at the start of a file replaces the whole of an earlier one.    *)

RenamedTag == "0123ABCD"

ConcurrentNamings == {<<<<"Radio">>, <<"red">>>>, <<<<"Alarm">>, <<"tan">>>>}

\* the locals of a request: what parse_rfid_file has read so far
NoLocals == [name |-> <<>>, color |-> <<>>]

InitRename ==
    /\ fs \in { <<>>,
                RfidFile(RenamedTag, ".rfid") :> <<"sleep">>
                    @@ RfidFile(RenamedTag, ".name") :> <<"Clock">>
                    @@ RfidFile(RenamedTag, ".color") :> <<"sky">> }
    /\ pc = [w \in Workers |-> "idle"]
    /\ req = [w \in Workers |-> NoRequest]
    /\ resp = [w \in Workers |-> Pending]
    /\ results = [w \in Workers |-> NoLocals]
    /\ idx = 0
    /\ fsTrace = <<fs>>
    /\ calls = <<>>
    /\ runs = <<>>
    /\ log = <<>>
    /\ dev = NominalDevice

\* the (name, color) of a worker's request
Naming(w) == <<req[w].body.fields["name"].s, req[w].body.fields["color"].s>>

\* a step of a worker that touches the file system
RenameStep(w, from, to, f) ==
    /\ pc[w] = from
    /\ pc' = [pc EXCEPT ![w] = to]
    /\ fs' = f
    /\ calls' = Append(calls, <<w, from>>)
    /\ UNCHANGED <<req, resp, results, idx, fsTrace, runs, log, dev>>

\* a worker takes a request: utils.log_info(...)
RenameReceive(w) ==
    /\ pc[w] = "idle"
    /\ \E naming \in ConcurrentNamings :
         /\ req' = [req EXCEPT ![w] =
                      HttpRequest("rfid.rename",
                          Obj("tag_id" :> JStr(<<RenamedTag>>) @@ "name" :> JStr(naming[1])
                              @@ "color" :> JStr(naming[2])))]
         /\ log' = Append(log,
                      LogInfo(<<"Renaming tag ", RenamedTag, " to '">> \o naming[1]
                              \o <<"' with color '">> \o naming[2] \o <<"'.">>, "RFID"))
    /\ pc' = [pc EXCEPT ![w] = "open_name"]
    /\ UNCHANGED <<fs, resp, results, idx, fsTrace, calls, runs, dev>>

\* write_file_content(f"{base_path}.name", name): open(path, 'w')
RenameOpenName(w) ==
    RenameStep(w, "open_name", "write_name",
               OpenTruncate(fs, RfidFile(RenamedTag, ".name")))

\* f.write(name) and the end of the with block
RenameWriteName(w) ==
    RenameStep(w, "write_name", "open_color",
               WriteAtStart(fs, RfidFile(RenamedTag, ".name"), Naming(w)[1]))

\* write_file_content(f"{base_path}.color", color): open(path, 'w')
RenameOpenColor(w) ==
    RenameStep(w, "open_color", "write_color",
               OpenTruncate(fs, RfidFile(RenamedTag, ".color")))

\* f.write(color) and the end of the with block
RenameWriteColor(w) ==
    RenameStep(w, "write_color", "read_name",
               WriteAtStart(fs, RfidFile(RenamedTag, ".color"), Naming(w)[2]))

\* parse_rfid_file: name = utils.get_file_content(f"{base_path}.name", ...)
RenameReadName(w) ==
    /\ pc[w] = "read_name"
    /\ results' = [results EXCEPT ![w].name =
                      GetFileContent(fs, RfidFile(RenamedTag, ".name"),
                                     <<"Tag ", RenamedTag>>)]
    /\ pc' = [pc EXCEPT ![w] = "read_color"]
    /\ UNCHANGED <<fs, req, resp, idx, fsTrace, calls, runs, log, dev>>

\* parse_rfid_file: color = utils.get_file_content(f"{base_path}.color", "grey")
RenameReadColor(w) ==
    /\ pc[w] = "read_color"
    /\ results' = [results EXCEPT ![w].color =
                      GetFileContent(fs, RfidFile(RenamedTag, ".color"), <<"grey">>)]
    /\ pc' = [pc EXCEPT ![w] = "read_rfid"]
    /\ UNCHANGED <<fs, req, resp, idx, fsTrace, calls, runs, log, dev>>

\* parse_rfid_file: the read of the action file and the return of the tag
RenameReturn(w) ==
    /\ pc[w] = "read_rfid"
    /\ resp' = [resp EXCEPT ![w] =
                  Response(200, [ParseRfidFile(fs, RenamedTag) EXCEPT
                                    !.name = results[w].name,
                                    !.color = results[w].color])]
    /\ pc' = [pc EXCEPT ![w] = "responded"]
    /\ UNCHANGED <<fs, req, results, idx, fsTrace, calls, runs, log, dev>>

NextRename ==
    \E w \in Workers :
        \/ RenameReceive(w)
        \/ RenameOpenName(w)
        \/ RenameWriteName(w)
        \/ RenameOpenColor(w)
        \/ RenameWriteColor(w)
        \/ RenameReadName(w)
        \/ RenameReadColor(w)
        \/ RenameReturn(w)

SpecRename == InitRename /\ [][NextRename]_vars

\* C24: under every interleaving of two rename requests for one tag, the
\* persisted (name, color) pair is the pair of one of the two requests, and
\* the tag returned to each request carries the name and colour of that
\* request.
C24_RenameIsAtomic ==
    (\A w \in Workers : pc[w] = "responded") =>
        /\ <<fs[RfidFile(RenamedTag, ".name")], fs[RfidFile(RenamedTag, ".color")]>>
             \in {Naming(w) : w \in Workers}
        /\ \A w \in Workers :
             <<resp[w].body.name, resp[w].body.color>> = Naming(w)

=============================================================================
